---- MODULE Spec2Model ----
(***************************************************************************)
(* Model of the four-layer editorial pipeline of arena                      *)
(* (src/engine/arena/editorial).                                            *)
(*                                                                         *)
(* Units: times are whole seconds, scores are hundredths (0.7 is 70).       *)
(* Python's None is the string "None" for text fields, 0 for the optional   *)
(* durations (the code tests them with `if min_duration and ...`, which     *)
(* treats None and 0 alike) and a has_* flag for optional response fields.  *)
(***************************************************************************)
EXTENDS Integers, Sequences, FiniteSets, TLC

VARIABLES
    \* ---- Layer 3: StandaloneContextRefiner.refine_all / _validate_and_refine
    l3_thoughts,        \* the thoughts handed to refine_all
    min_duration,       \* optional minimum duration (0 = not configured)
    max_duration,       \* optional maximum duration (0 = not configured)
    l3_idx,             \* 1-based position of the thought being validated
    l3_pc,              \* "loop" inside _validate_and_refine, "done" after refine_all
    current_start,      \* locals of _validate_and_refine
    current_end,
    iteration,
    refinement_history,
    judgments,          \* what _validate_single returned, per call, for this thought
    l3_ret,             \* what the last _validate_and_refine call returned
    validated_clips,    \* the list refine_all builds
    l3_metrics,         \* self.metrics: the verdict counts and the two rates
    l3_no_change_reports, \* PASS clips whose judgment said changes_made = false
    \* ---- Layer 2: ThoughtBoundaryAnalyzer.analyze_all / _analyze_single
    l2_moments,         \* the moments handed to analyze_all
    l2_parallel,        \* the parallel argument
    l2_max_workers,     \* the max_workers argument (0 = None)
    l2_pc,              \* "submit", "collect", "seq", "returned", "raised", "idle"
    l2_idx,             \* tasks submitted so far / position of the sequential loop
    l2_task,            \* per moment: the state of its _analyze_single call
    l2_collected,       \* the futures as_completed has yielded
    l2_thoughts,        \* the list analyze_all builds
    l2_metrics,         \* thoughts_analyzed and avg_expansion_ratio
    \* ---- FourLayerAdapter.analyze_transcript (from Layer 3 on) and Layer 4
    ad_pc,              \* "layer3", "layer4", "returned", "idle"
    target_clips,       \* the target_clips argument
    passed_clips,       \* the clips handed to PackagingLayer.package_all
    l4_idx,             \* clips package_all has dealt with
    packaged_clips,     \* the list package_all builds
    legacy_clips,       \* what analyze_transcript returns
    \* ---- Layer 1: MomentDetector._chunk_segments
    ck_segments,        \* the segments argument
    ck_max_tokens,      \* the max_tokens argument
    ck_pc,              \* "call", "returned", "idle"
    ck_chunks,          \* what _chunk_segments returns
    \* ---- Layer 1: MomentDetector._merge_chunk_results
    mg_chunk_results,   \* the chunk_results argument
    mg_pc,              \* "call", "returned", "idle"
    mg_deduped,         \* what _merge_chunk_results returns
    \* ---- Layer 1: MomentDetector.detect
    l1_segments,        \* transcript_data['segments']
    l1_target,          \* the target_moments argument
    l1_pc,              \* "single", "chunks", "wait", "returned", "raised", "idle"
    l1_chunks,          \* the chunks of the chunked path
    l1_i,               \* 1-based position of the chunk being processed
    l1_attempt,         \* attempt of the retry loop of _detect_single_chunk
    l1_chunk_results,   \* the list detect builds in the chunked path
    l1_moments,         \* what detect returns
    l1_requests,        \* service requests detect has issued
    l1_delays,          \* the chunks after which detect slept, in order
    l1_request_log,     \* for the requests of the chunked path: the chunk, and
                        \* the chunks ended and delays taken when it was issued
    \* ---- the retry loop around one service request, one per layer
    rt_layer,           \* 1..4: whose loop this is
    rt_pc,              \* "call", "returned", "raised", "idle"
    rt_attempt,         \* the loop variable attempt
    rt_outcomes,        \* what the service did at each call so far
    rt_waits,           \* the time.sleep calls so far
    \* ---- SentenceBoundaryDetector.align_clip_to_boundaries
    al_start_time,      \* the arguments
    al_end_time,
    al_boundaries,
    al_max_adjustment,
    al_min_clip_duration,   \* Optional[float]: NoneFloat or SomeFloat(x)
    al_max_clip_duration,   \* Optional[float]: NoneFloat or SomeFloat(x)
    al_pc,              \* "call", "returned", "realigned", "idle"
    al_ret,             \* the (adjusted_start, adjusted_end, metadata) returned
    al_again,           \* what the call on the returned pair returns
    \* ---- SentenceBoundaryDetector.find_sentence_boundaries
    bd_segments,        \* the argument transcript_segments
    bd_pc,              \* "call", "returned", "idle"
    bd_emitted,         \* the list boundaries before _deduplicate_boundaries
    bd_boundaries,      \* the list returned
    \* ---- SegmentScorer.filter_overlapping
    fo_segments,        \* the argument segments
    fo_threshold,       \* the argument overlap_threshold
    fo_pc,              \* "call", "returned", "idle"
    fo_filtered,        \* the list returned
    \* ---- StandaloneContextRefiner._validate_refinement_bounds
    vb_original_start,  \* the four arguments
    vb_original_end,
    vb_refined_start,
    vb_refined_end,
    vb_pc,              \* "call", "returned", "idle"
    vb_ret,             \* the bool returned
    \* ---- SentenceBoundaryDetector._has_sentence_ending
    he_text,            \* the text of a segment, a sequence of characters
    he_pc,              \* "call", "returned", "idle"
    he_ret,             \* the bool _has_sentence_ending returned
    he_boundaries,      \* find_sentence_boundaries of the segment on its own
    \* ---- Layer 2: the metrics the pool threads of analyze_all keep
    mt_moments,         \* how many moments analyze_all was handed
    mt_max_workers,     \* the max_workers argument (0 = None)
    mt_pc,              \* "submit", "collect", "returned", "idle"
    mt_idx,             \* tasks submitted so far
    mt_task,            \* per moment: where its _analyze_single call stands
    mt_metrics,         \* self.metrics: api_calls and tokens_used
    mt_received,        \* the responses the service gave, and their tokens
    \* ---- Layer 2: analyze_all against a service with fixed outcomes
    eq_outcome          \* per candidate: the outcome the service has for it

l3vars == <<l3_thoughts, min_duration, max_duration, l3_idx, l3_pc, current_start,
            current_end, iteration, refinement_history, judgments, l3_ret,
            validated_clips, l3_metrics, l3_no_change_reports>>

l2vars == <<l2_moments, l2_parallel, l2_max_workers, l2_pc, l2_idx, l2_task,
            l2_collected, l2_thoughts, l2_metrics>>

advars == <<ad_pc, target_clips, passed_clips, l4_idx, packaged_clips, legacy_clips>>

ckvars == <<ck_segments, ck_max_tokens, ck_pc, ck_chunks>>

mgvars == <<mg_chunk_results, mg_pc, mg_deduped>>

l1vars == <<l1_segments, l1_target, l1_pc, l1_chunks, l1_i, l1_attempt,
            l1_chunk_results, l1_moments, l1_requests, l1_delays, l1_request_log>>

rtvars == <<rt_layer, rt_pc, rt_attempt, rt_outcomes, rt_waits>>

alvars == <<al_start_time, al_end_time, al_boundaries, al_max_adjustment,
            al_min_clip_duration, al_max_clip_duration, al_pc, al_ret, al_again>>

bdvars == <<bd_segments, bd_pc, bd_emitted, bd_boundaries>>

fovars == <<fo_segments, fo_threshold, fo_pc, fo_filtered>>

vbvars == <<vb_original_start, vb_original_end, vb_refined_start, vb_refined_end,
            vb_pc, vb_ret>>

hevars == <<he_text, he_pc, he_ret, he_boundaries>>

mtvars == <<mt_moments, mt_max_workers, mt_pc, mt_idx, mt_task, mt_metrics,
            mt_received>>

eqvars == <<eq_outcome>>

latervars == <<bdvars, fovars, vbvars, hevars, mtvars, eqvars>>

othervars == <<ckvars, mgvars, rtvars, alvars, latervars>>

vars == <<l3vars, l2vars, advars, ckvars, mgvars, l1vars, rtvars, alvars, latervars>>

Abs(x) == IF x < 0 THEN -x ELSE x

(***************************************************************************)
(* The transcript: three segments, the middle one with whitespace-only     *)
(* text.                                                                   *)
(***************************************************************************)
Segments ==
    << [start |-> 0,  end |-> 30, text |-> "a"],
       [start |-> 30, end |-> 35, text |-> ""],
       [start |-> 35, end |-> 90, text |-> "b"] >>

\* utils.extract_clip_text: the non-empty texts of the segments that overlap
\* the window, in order (the join is left as the sequence of its parts).
RECURSIVE extract_clip_text(_, _, _)
extract_clip_text(transcript_segments, start_time, end_time) ==
    IF transcript_segments = <<>> THEN <<>>
    ELSE LET segment == Head(transcript_segments)
             rest == extract_clip_text(Tail(transcript_segments), start_time, end_time)
         IN IF segment.start < end_time /\ segment.end > start_time /\ segment.text # ""
            THEN <<segment.text>> \o rest
            ELSE rest

(***************************************************************************)
(* Layer 3                                                                 *)
(***************************************************************************)
PASS_THRESHOLD == 70
REVISE_THRESHOLD == 40
MAX_ITERATIONS == 2
MAX_ADJUSTMENT_SECONDS == 15

NoneClip == [verdict |-> "None"]

\* _validate_refinement_bounds with the cap off by a third: a plausible slip.
validate_refinement_bounds_loose(original_start, original_end, refined_start, refined_end) ==
    /\ Abs(original_start - refined_start) <= MAX_ADJUSTMENT_SECONDS + 5
    /\ Abs(original_end - refined_end) <= MAX_ADJUSTMENT_SECONDS + 5

validate_refinement_bounds(original_start, original_end, refined_start, refined_end) ==
    LET start_adjustment == Abs(original_start - refined_start)
        end_adjustment == Abs(original_end - refined_end)
    IN IF start_adjustment > MAX_ADJUSTMENT_SECONDS THEN FALSE
       ELSE IF end_adjustment > MAX_ADJUSTMENT_SECONDS THEN FALSE
       ELSE TRUE

\* _validate_single: what the retry loop returns for one service outcome.
\* resp.kind is "ok" (a JSON object came back), "parse_error" (not JSON),
\* "api_error" (a non-rate-limit error) or "rate_limit" (429 on all attempts).
validate_single(resp, start, end) ==
    IF resp.kind # "ok" THEN [ok |-> FALSE]
    ELSE IF ~resp.has_score \/ ~resp.has_notes THEN [ok |-> FALSE]
    ELSE [ok |-> TRUE,
          refined_start |-> IF resp.has_start THEN resp.refined_start ELSE start,
          refined_end |-> IF resp.has_end THEN resp.refined_end ELSE end,
          standalone_score |-> resp.standalone_score,
          rejection_reason |-> resp.rejection_reason]

Truthy(n) == n # 0

\* The while condition of _validate_and_refine, off by one.
more_iterations_off_by_one(it) == it <= MAX_ITERATIONS

more_iterations(it) == it < MAX_ITERATIONS

\* The duration test of _validate_and_refine with the maximum never applied.
duration_violation_min_only(duration, mind, maxd) ==
    IF Truthy(mind) /\ duration < mind THEN "below_minimum" ELSE "None"

\* The duration test of _validate_and_refine with the minimum never applied.
duration_violation_max_only(duration, mind, maxd) ==
    IF Truthy(maxd) /\ duration > maxd THEN "exceeds_maximum" ELSE "None"

duration_violation(duration, mind, maxd) ==
    IF Truthy(mind) /\ duration < mind THEN "below_minimum"
    ELSE IF Truthy(maxd) /\ duration > maxd THEN "exceeds_maximum"
    ELSE "None"

\* The verdict branch of _validate_and_refine with the PASS test made strict.
score_class_strict(standalone_score) ==
    IF standalone_score > PASS_THRESHOLD THEN "PASS"
    ELSE IF standalone_score >= REVISE_THRESHOLD THEN "REVISE"
    ELSE "REJECT"

score_class(standalone_score) ==
    IF standalone_score >= PASS_THRESHOLD THEN "PASS"
    ELSE IF standalone_score >= REVISE_THRESHOLD THEN "REVISE"
    ELSE "REJECT"

\* One pass through the body of the while loop of _validate_and_refine, for the
\* service outcome resp: either the call returns (a clip or NoneClip) or the
\* loop goes round again with the refined bounds.
validate_and_refine_round(thought, cur_start, cur_end, it, history, resp, mind, maxd) ==
    LET iter == it + 1
        clip_text == extract_clip_text(Segments, cur_start, cur_end)
        result == validate_single(resp, cur_start, cur_end)
    IN
    IF clip_text = <<>> THEN [kind |-> "return", clip |-> NoneClip, judged |-> FALSE]
    ELSE IF ~result.ok
    THEN [kind |-> "return", clip |-> NoneClip, judged |-> TRUE, result |-> result]
    ELSE
    LET refined_start == result.refined_start
        refined_end == result.refined_end
        standalone_score == result.standalone_score
        rejection_reason == result.rejection_reason
        duration == refined_end - refined_start
        dv == duration_violation(duration, mind, maxd)
        hist == Append(history, [iteration |-> iter, start |-> cur_start,
                                 end |-> cur_end, score |-> standalone_score])
        cls == score_class(standalone_score)
    IN
    IF dv # "None" THEN
        [kind |-> "return", judged |-> TRUE, result |-> result,
         clip |-> [thought_id |-> thought.moment_id,
                   refined_start |-> cur_start,
                   refined_end |-> cur_end,
                   standalone_score |-> standalone_score,
                   verdict |-> "REJECT",
                   rejection_reason |-> "duration_constraint",
                   editor_notes |-> dv,
                   complete_thought |-> thought]]
    ELSE IF cls = "PASS" THEN
        [kind |-> "return", judged |-> TRUE, result |-> result,
         clip |-> [thought_id |-> thought.moment_id,
                   refined_start |-> refined_start,
                   refined_end |-> refined_end,
                   standalone_score |-> standalone_score,
                   verdict |-> "PASS",
                   rejection_reason |-> "None",
                   editor_notes |-> "service",
                   complete_thought |-> thought,
                   refinement_history |-> hist]]
    ELSE IF cls = "REVISE" THEN
        IF more_iterations(iter) THEN
            IF ~validate_refinement_bounds(thought.expanded_start, thought.expanded_end,
                                           refined_start, refined_end)
            THEN [kind |-> "return", judged |-> TRUE, result |-> result,
                  clip |-> [thought_id |-> thought.moment_id,
                            refined_start |-> cur_start,
                            refined_end |-> cur_end,
                            standalone_score |-> standalone_score,
                            verdict |-> "REJECT",
                            rejection_reason |-> IF rejection_reason # "None"
                                                 THEN rejection_reason
                                                 ELSE "structural_issue",
                            editor_notes |-> "exceeds_15s_limit",
                            complete_thought |-> thought,
                            refinement_history |-> hist]]
            ELSE [kind |-> "continue", judged |-> TRUE, result |-> result,
                  start |-> refined_start, end |-> refined_end, history |-> hist]
        ELSE
            [kind |-> "return", judged |-> TRUE, result |-> result,
             clip |-> [thought_id |-> thought.moment_id,
                       refined_start |-> refined_start,
                       refined_end |-> refined_end,
                       standalone_score |-> standalone_score,
                       verdict |-> "REVISE",
                       rejection_reason |-> "None",
                       editor_notes |-> "after_iterations",
                       complete_thought |-> thought,
                       refinement_history |-> hist]]
    ELSE
        [kind |-> "return", judged |-> TRUE, result |-> result,
         clip |-> [thought_id |-> thought.moment_id,
                   refined_start |-> cur_start,
                   refined_end |-> cur_end,
                   standalone_score |-> standalone_score,
                   verdict |-> "REJECT",
                   rejection_reason |-> rejection_reason,
                   editor_notes |-> "service",
                   complete_thought |-> thought,
                   refinement_history |-> hist]]

\* The return after the while loop of _validate_and_refine.
max_iterations_exceeded(thought, cur_start, cur_end) ==
    [thought_id |-> thought.moment_id,
     refined_start |-> cur_start,
     refined_end |-> cur_end,
     standalone_score |-> 0,
     verdict |-> "REJECT",
     editor_notes |-> "max_iterations_exceeded",
     complete_thought |-> thought]

(***************************************************************************)
(* Inputs of the Layer 3 model.                                            *)
(***************************************************************************)
MaxShift == 20

\* How far from the Layer 2 bound a judgment may put a refined bound.
Shifts == {-MaxShift, -(MAX_ADJUSTMENT_SECONDS + 1), -MAX_ADJUSTMENT_SECONDS, 0,
           MAX_ADJUSTMENT_SECONDS, MAX_ADJUSTMENT_SECONDS + 1, MaxShift}

Scores == {REVISE_THRESHOLD - 1, REVISE_THRESHOLD, PASS_THRESHOLD - 1, PASS_THRESHOLD}

Reasons == {"None", "missing_premise"}

\* f"moment_{moment_id:03d}": the prefix and the decimal digits, at least three.
RECURSIVE Digits(_)
Digits(n) == IF n < 10 THEN <<n>> ELSE Append(Digits(n \div 10), n % 10)

Pad03(ds) == IF Len(ds) >= 3 THEN ds
             ELSE IF Len(ds) = 2 THEN <<0>> \o ds
             ELSE <<0, 0>> \o ds

format_moment_id(moment_id) == [prefix |-> "moment_", digits |-> Pad03(Digits(moment_id))]

Moment(rs, re, score) ==
    [rough_start |-> rs, rough_end |-> re, interest_score |-> score]

Thought(id, es, ee, conf, m) ==
    [moment_id |-> format_moment_id(id), expanded_start |-> es, expanded_end |-> ee,
     confidence |-> conf, original_moment |-> m]

\* The thoughts Layer 3 is run on: an ordinary one, a short one, and one that
\* covers only the segment without text.
L3ThoughtPool ==
    { Thought(1, 20, 50, 85, Moment(25, 45, 80)),
      Thought(1, 30, 40, 85, Moment(30, 40, 80)),
      Thought(1, 30, 35, 85, Moment(30, 35, 80)) }

MinDurations == {0, 25}
MaxDurations == {0, 40}

\* What the service may answer to one judgment request for `thought`.
L3Responses(thought) ==
    LET starts == {[has |-> FALSE, v |-> 0]} \cup
                  {[has |-> TRUE, v |-> thought.expanded_start + d] : d \in Shifts}
        ends == {[has |-> FALSE, v |-> 0]} \cup
                {[has |-> TRUE, v |-> thought.expanded_end + d] : d \in Shifts}
        full == {[kind |-> "ok", has_score |-> TRUE, has_notes |-> TRUE,
                  has_start |-> s.has, refined_start |-> s.v,
                  has_end |-> e.has, refined_end |-> e.v,
                  standalone_score |-> sc, rejection_reason |-> r,
                  changes_made |-> IF (s.has /\ s.v # thought.expanded_start)
                                        \/ (e.has /\ e.v # thought.expanded_end)
                                   THEN "true" ELSE "false"] :
                     s \in starts, e \in ends, sc \in Scores, r \in Reasons}
        partial == {[kind |-> "ok", has_score |-> hs, has_notes |-> ~hs,
                     has_start |-> FALSE, refined_start |-> 0,
                     has_end |-> FALSE, refined_end |-> 0,
                     standalone_score |-> PASS_THRESHOLD, rejection_reason |-> "None",
                     changes_made |-> "missing"] :
                        hs \in BOOLEAN}
        failed == {[kind |-> k] : k \in {"parse_error", "api_error", "rate_limit"}}
    IN full \cup partial \cup failed

(***************************************************************************)
(* refine_all: one step is one pass through the while loop of              *)
(* _validate_and_refine for the thought at l3_idx; when the call returns,   *)
(* the step also does refine_all's bookkeeping and moves to the next        *)
(* thought.                                                                *)
(***************************************************************************)
\* self.metrics as __init__ leaves it; the rates are in percent.
NoMetrics ==
    [passed |-> 0, revised |-> 0, rejected |-> 0, pass_rate |-> 0,
     no_changes_needed |-> 0, boundary_quality_rate |-> 0]

\* clip.get('changes_made', True)
clip_changes_made(clip) ==
    IF "changes_made" \in DOMAIN clip THEN clip.changes_made ELSE TRUE

\* refine_all: "Track metrics" for the clip _validate_and_refine returned.
track_metrics(metrics, clip) ==
    IF clip = NoneClip THEN metrics
    ELSE IF clip.verdict = "PASS"
    THEN [metrics EXCEPT !.passed = @ + 1,
                         !.no_changes_needed =
                             IF ~clip_changes_made(clip) THEN @ + 1 ELSE @]
    ELSE IF clip.verdict = "REVISE" THEN [metrics EXCEPT !.revised = @ + 1]
    ELSE IF clip.verdict = "REJECT" THEN [metrics EXCEPT !.rejected = @ + 1]
    ELSE metrics

\* refine_all: the two rates computed after the loop.
calculate_rates(metrics) ==
    LET total == metrics.passed + metrics.revised + metrics.rejected
        eligible == metrics.passed + metrics.revised
    IN IF total > 0
       THEN [metrics EXCEPT
                !.pass_rate = (100 * metrics.passed) \div total,
                !.boundary_quality_rate =
                    IF eligible > 0
                    THEN (100 * metrics.no_changes_needed) \div eligible
                    ELSE @]
       ELSE metrics

L3Enter(thoughts, idx) ==
    IF idx <= Len(thoughts)
    THEN [pc |-> "loop", start |-> thoughts[idx].expanded_start,
          end |-> thoughts[idx].expanded_end]
    ELSE [pc |-> "done", start |-> 0, end |-> 0]

L3Init(thoughtLists, minSet, maxSet) ==
    /\ l3_thoughts \in thoughtLists
    /\ min_duration \in minSet
    /\ max_duration \in maxSet
    /\ l3_idx = 1
    /\ l3_pc = L3Enter(l3_thoughts, 1).pc
    /\ current_start = L3Enter(l3_thoughts, 1).start
    /\ current_end = L3Enter(l3_thoughts, 1).end
    /\ iteration = 0
    /\ refinement_history = <<>>
    /\ judgments = <<>>
    /\ l3_ret = [verdict |-> "Running"]
    /\ validated_clips = <<>>
    /\ l3_metrics = NoMetrics
    /\ l3_no_change_reports = 0

ValidateRound(Responses) ==
    /\ l3_pc = "loop"
    /\ LET thought == l3_thoughts[l3_idx] IN
       \E resp \in Responses[thought] :
         LET out == IF more_iterations(iteration)
                    THEN validate_and_refine_round(thought, current_start, current_end,
                                                   iteration, refinement_history, resp,
                                                   min_duration, max_duration)
                    ELSE [kind |-> "return", judged |-> FALSE,
                          clip |-> max_iterations_exceeded(thought, current_start,
                                                           current_end)]
             before == IF iteration = 0 THEN <<>> ELSE judgments
             nxt == L3Enter(l3_thoughts, l3_idx + 1)
         IN
         /\ judgments' = IF out.judged THEN Append(before, out.result) ELSE before
         /\ IF out.kind = "continue"
            THEN /\ current_start' = out.start
                 /\ current_end' = out.end
                 /\ iteration' = iteration + 1
                 /\ refinement_history' = out.history
                 /\ l3_ret' = [verdict |-> "Running"]
                 /\ UNCHANGED <<l3_idx, l3_pc, validated_clips, l3_metrics,
                                l3_no_change_reports>>
            ELSE /\ l3_ret' = out.clip
                 /\ validated_clips' = IF out.clip # NoneClip
                                       THEN Append(validated_clips, out.clip)
                                       ELSE validated_clips
                 /\ l3_metrics' =
                       LET tracked == track_metrics(l3_metrics, out.clip)
                       IN IF nxt.pc = "done" THEN calculate_rates(tracked) ELSE tracked
                 /\ l3_no_change_reports' =
                       IF out.clip # NoneClip /\ out.clip.verdict = "PASS"
                             /\ resp.changes_made = "false"
                       THEN l3_no_change_reports + 1
                       ELSE l3_no_change_reports
                 /\ l3_idx' = l3_idx + 1
                 /\ l3_pc' = nxt.pc
                 /\ current_start' = nxt.start
                 /\ current_end' = nxt.end
                 /\ iteration' = 0
                 /\ refinement_history' = <<>>
    /\ UNCHANGED <<l3_thoughts, min_duration, max_duration>>

L3SingleThought == {<<t>> : t \in L3ThoughtPool}

(***************************************************************************)
(* Layer 2                                                                 *)
(***************************************************************************)
CONTEXT_WINDOW_SECONDS == 60
DEFAULT_MAX_WORKERS == 5
MAX_RETRIES == 5

NoneThought == [moment_id |-> "None"]

\* The context window of _analyze_single: the segments that lie wholly within
\* 60 s of the centre of the rough moment.
context_segments(moment, segments) ==
    LET rough_center == (moment.rough_start + moment.rough_end) \div 2
        lo == rough_center - CONTEXT_WINDOW_SECONDS
        context_start == IF lo > 0 THEN lo ELSE 0
        context_end == rough_center + CONTEXT_WINDOW_SECONDS
    IN SelectSeq(segments, LAMBDA seg : seg.start >= context_start /\ seg.end <= context_end)

\* One attempt of the retry loop of _analyze_single (the context check first).
\* outcome.kind is "ok" (a JSON object came back), "parse_error", "rate_limit"
\* or "api_error".
analyze_single_attempt(moment, moment_id, attempt, outcome) ==
    IF context_segments(moment, Segments) = <<>>
    THEN [done |-> TRUE, result |-> NoneThought]
    ELSE IF outcome.kind = "ok"
    THEN IF outcome.complete
         THEN [done |-> TRUE,
               result |-> Thought(moment_id, outcome.expanded_start, outcome.expanded_end,
                                  outcome.confidence, moment)]
         ELSE [done |-> TRUE, result |-> NoneThought]
    ELSE IF outcome.kind = "parse_error"
    THEN [done |-> TRUE, result |-> NoneThought]
    ELSE IF outcome.kind = "rate_limit"
    THEN IF attempt < MAX_RETRIES - 1
         THEN [done |-> FALSE, attempt |-> attempt + 1]
         ELSE [done |-> TRUE, result |-> NoneThought]
    ELSE [done |-> TRUE, result |-> NoneThought]

\* The pool built with no regard for the max_workers argument.
pool_workers_default_only(max_workers) == DEFAULT_MAX_WORKERS

\* workers = max_workers or self.DEFAULT_MAX_WORKERS
pool_workers(max_workers) ==
    IF max_workers # 0 THEN max_workers ELSE DEFAULT_MAX_WORKERS

\* The arguments of a task, numbered from 0 instead of 1.
submit_args_zero_based(moments, idx) ==
    [moment |-> moments[idx], moment_id |-> idx - 1]

\* executor.submit(self._analyze_single, client, moment, idx, segments)
\* for idx, moment in enumerate(moments, 1)
submit_args(moments, idx) ==
    [moment |-> moments[idx], moment_id |-> idx]

\* The metrics block at the end of analyze_all: the average expansion ratio in
\* hundredths, or the ZeroDivisionError of a thought whose moment has
\* rough_end = rough_start.
RECURSIVE SumSeq(_)
SumSeq(q) == IF q = <<>> THEN 0 ELSE Head(q) + SumSeq(Tail(q))

analyze_all_metrics(thoughts) ==
    IF thoughts = <<>>
    THEN [raised |-> FALSE, thoughts_analyzed |-> 0, avg_expansion_ratio |-> 0]
    ELSE IF \E k \in DOMAIN thoughts :
                thoughts[k].original_moment.rough_end
                    - thoughts[k].original_moment.rough_start = 0
    THEN [raised |-> TRUE, thoughts_analyzed |-> Len(thoughts), avg_expansion_ratio |-> 0]
    ELSE LET ratios == [k \in DOMAIN thoughts |->
                          (100 * (thoughts[k].expanded_end - thoughts[k].expanded_start))
                          \div (thoughts[k].original_moment.rough_end
                                - thoughts[k].original_moment.rough_start)]
         IN [raised |-> FALSE, thoughts_analyzed |-> Len(thoughts),
             avg_expansion_ratio |-> SumSeq(ratios) \div Len(thoughts)]

(***************************************************************************)
(* Inputs of the Layer 2 model.                                            *)
(***************************************************************************)
MaxMoments == 3

\* The candidate at position i of the list of variant v: an ordinary one at the
\* odd positions; at the even ones a zero-length one (second position, v = 0)
\* or one so late that no segment lies in its context window.
L2Moment(i, v) ==
    IF i % 2 = 1 THEN Moment(40 + i, 50 + i, 80)
    ELSE IF i = 2 /\ v = 0 THEN Moment(60 + i, 60 + i, 70)
    ELSE Moment(200 + i, 210 + i, 60)

L2MomentLists == {[i \in 1..n |-> L2Moment(i, v)] : n \in 1..MaxMoments, v \in 0..1}

L2MomentPool == {L2Moment(i, v) : i \in 1..MaxMoments, v \in 0..1}

\* (parallel, max_workers) as the caller may pass them.
L2Modes == {<<TRUE, 0>>, <<TRUE, 1>>, <<TRUE, 2>>, <<FALSE, 0>>}

\* How far (backward, forward) a response may put the expanded bounds from the
\* rough ones; the second disregards the prompt's constraints.
Expansions == {<<30, 30>>, <<31, -5>>}

L2Responses(moment) ==
    {[kind |-> "ok", complete |-> TRUE,
      expanded_start |-> moment.rough_start - x[1],
      expanded_end |-> moment.rough_end + x[2],
      confidence |-> 85] : x \in Expansions}
    \cup {[kind |-> "ok", complete |-> FALSE]}
    \cup {[kind |-> k] : k \in {"parse_error", "rate_limit", "api_error"}}

(***************************************************************************)
(* analyze_all                                                             *)
(***************************************************************************)
L2Init(momentLists, modes) ==
    /\ l2_moments \in momentLists
    /\ \E mode \in modes : l2_parallel = mode[1] /\ l2_max_workers = mode[2]
    /\ l2_pc = IF l2_moments = <<>> THEN "returned"
               ELSE IF l2_parallel /\ Len(l2_moments) > 1 THEN "submit"
               ELSE "seq"
    /\ l2_idx = 0
    /\ l2_task = [i \in DOMAIN l2_moments |-> [st |-> "new", attempt |-> 0]]
    /\ l2_collected = {}
    /\ l2_thoughts = <<>>
    /\ l2_metrics = [thoughts_analyzed |-> 0, avg_expansion_ratio |-> 0]

L2Idle ==
    /\ l2_moments = <<>>
    /\ l2_parallel = FALSE
    /\ l2_max_workers = 0
    /\ l2_pc = "idle"
    /\ l2_idx = 0
    /\ l2_task = <<>>
    /\ l2_collected = {}
    /\ l2_thoughts = <<>>
    /\ l2_metrics = [thoughts_analyzed |-> 0, avg_expansion_ratio |-> 0]

Running == {i \in DOMAIN l2_task : l2_task[i].st = "running"}

Queued == {i \in DOMAIN l2_task : l2_task[i].st = "queued"}

\* The main thread submits the next task to the executor.
L2Submit ==
    /\ l2_pc = "submit"
    /\ LET i == l2_idx + 1
           args == submit_args(l2_moments, i)
       IN /\ l2_task' = [l2_task EXCEPT ![i] =
                            [st |-> "queued", attempt |-> 0, args |-> args]]
          /\ l2_idx' = i
          /\ l2_pc' = IF i = Len(l2_moments) THEN "collect" ELSE "submit"
    /\ UNCHANGED <<l2_moments, l2_parallel, l2_max_workers, l2_collected, l2_thoughts,
                   l2_metrics>>

\* A pool thread takes the oldest queued task; the pool never has more than
\* pool_workers(max_workers) threads.
L2WorkerStart ==
    /\ Queued # {}
    /\ Cardinality(Running) < pool_workers(l2_max_workers)
    /\ LET i == CHOOSE q \in Queued : \A r \in Queued : q <= r
       IN l2_task' = [l2_task EXCEPT ![i].st = "running"]
    /\ UNCHANGED <<l2_moments, l2_parallel, l2_max_workers, l2_pc, l2_idx, l2_collected,
                   l2_thoughts, l2_metrics>>

\* A pool thread makes one attempt of _analyze_single for its task.
L2WorkerAttempt(i, Responses) ==
    /\ i \in Running
    /\ LET t == l2_task[i] IN
       \E outcome \in Responses[t.args.moment] :
          LET r == analyze_single_attempt(t.args.moment, t.args.moment_id, t.attempt,
                                          outcome)
          IN l2_task' = [l2_task EXCEPT ![i] =
                            IF r.done
                            THEN [st |-> "done", attempt |-> t.attempt, args |-> t.args,
                                  result |-> r.result]
                            ELSE [st |-> "running", attempt |-> r.attempt,
                                  args |-> t.args]]
    /\ UNCHANGED <<l2_moments, l2_parallel, l2_max_workers, l2_pc, l2_idx, l2_collected,
                   l2_thoughts, l2_metrics>>

\* The collecting loop keeping only the thought that came last.
collect_thought_latest(thoughts, thought) ==
    IF thought # NoneThought THEN <<thought>> ELSE thoughts

\* thought = future.result(); if thought: thoughts.append(thought)
collect_thought(thoughts, thought) ==
    IF thought # NoneThought THEN Append(thoughts, thought) ELSE thoughts

\* as_completed yields a finished future; the main thread keeps its thought.
L2Collect(i) ==
    /\ l2_pc = "collect"
    /\ i \in DOMAIN l2_task
    /\ l2_task[i].st = "done"
    /\ i \notin l2_collected
    /\ l2_collected' = l2_collected \cup {i}
    /\ l2_thoughts' = collect_thought(l2_thoughts, l2_task[i].result)
    /\ UNCHANGED <<l2_moments, l2_parallel, l2_max_workers, l2_pc, l2_idx, l2_task,
                   l2_metrics>>

\* The sequential loop: one attempt of _analyze_single for the moment at hand,
\* and, when the call returns, the append and the step to the next moment.
L2SeqAttempt(Responses) ==
    /\ l2_pc = "seq"
    /\ l2_idx < Len(l2_moments)
    /\ LET i == l2_idx + 1
           args == [moment |-> l2_moments[i], moment_id |-> i]
           t == l2_task[i]
       IN \E outcome \in Responses[args.moment] :
             LET r == analyze_single_attempt(args.moment, args.moment_id, t.attempt,
                                             outcome)
             IN IF r.done
                THEN /\ l2_task' = [l2_task EXCEPT ![i] =
                                       [st |-> "done", attempt |-> t.attempt,
                                        args |-> args, result |-> r.result]]
                     /\ l2_thoughts' = IF r.result # NoneThought
                                       THEN Append(l2_thoughts, r.result)
                                       ELSE l2_thoughts
                     /\ l2_collected' = l2_collected \cup {i}
                     /\ l2_idx' = i
                ELSE /\ l2_task' = [l2_task EXCEPT ![i] =
                                       [st |-> "running", attempt |-> r.attempt,
                                        args |-> args]]
                     /\ UNCHANGED <<l2_thoughts, l2_collected, l2_idx>>
    /\ UNCHANGED <<l2_moments, l2_parallel, l2_max_workers, l2_pc, l2_metrics>>

\* The metrics block and the return of analyze_all.
L2Finish ==
    /\ \/ l2_pc = "collect" /\ l2_collected = DOMAIN l2_moments
       \/ l2_pc = "seq" /\ l2_idx = Len(l2_moments)
    /\ LET m == analyze_all_metrics(l2_thoughts)
       IN IF m.raised
          THEN /\ l2_pc' = "raised"
               /\ l2_metrics' = [l2_metrics EXCEPT
                                    !.thoughts_analyzed = m.thoughts_analyzed]
          ELSE /\ l2_pc' = "returned"
               /\ l2_metrics' = [thoughts_analyzed |-> m.thoughts_analyzed,
                                 avg_expansion_ratio |-> m.avg_expansion_ratio]
    /\ UNCHANGED <<l2_moments, l2_parallel, l2_max_workers, l2_idx, l2_task,
                   l2_collected, l2_thoughts>>

(***************************************************************************)
(* Layer 4 and the adapter                                                 *)
(***************************************************************************)
MAX_TITLE_LENGTH == 60

NonePackaging == [title |-> "None"]

Min(a, b) == IF a < b THEN a ELSE b

Max(a, b) == IF a > b THEN a ELSE b

format_clip_id(clip_id) == [prefix |-> "clip_", digits |-> Pad03(Digits(clip_id))]

\* _generate_packaging: what the retry loop returns for one service outcome.
\* A title is kept as its length and whether it ends in the "..." the
\* truncation adds; hashtags are a sequence.
generate_packaging(outcome, start_time, end_time) ==
    IF outcome.kind # "ok" THEN NonePackaging
    ELSE IF ~outcome.complete THEN NonePackaging
    ELSE [title |-> IF outcome.title_len > MAX_TITLE_LENGTH
                    THEN [len |-> (MAX_TITLE_LENGTH - 3) + 3, truncated |-> TRUE]
                    ELSE [len |-> outcome.title_len, truncated |-> FALSE],
          hashtags |-> SubSeq(outcome.hashtags, 1, Min(5, Len(outcome.hashtags))),
          thumbnail_time |-> Max(start_time, Min(end_time, outcome.thumbnail_time))]

\* _package_single: the packaged clip, or NonePackaging.
package_single(clip, clip_id, segments, outcome) ==
    LET start_time == clip.refined_start
        end_time == clip.refined_end
        clip_text == extract_clip_text(segments, start_time, end_time)
        packaging == generate_packaging(outcome, start_time, end_time)
    IN IF clip_text = <<>> THEN NonePackaging
       ELSE IF packaging = NonePackaging THEN NonePackaging
       ELSE [clip_id |-> format_clip_id(clip_id),
             start_time |-> start_time,
             end_time |-> end_time,
             duration |-> end_time - start_time,
             title |-> packaging.title,
             hashtags |-> packaging.hashtags,
             thumbnail_time |-> packaging.thumbnail_time,
             interest_score |-> clip.complete_thought.original_moment.interest_score,
             standalone_score |-> clip.standalone_score,
             layer1 |-> clip.complete_thought.original_moment,
             layer2 |-> [expanded_start |-> clip.complete_thought.expanded_start,
                         expanded_end |-> clip.complete_thought.expanded_end,
                         confidence |-> clip.complete_thought.confidence],
             layer3 |-> [refined_start |-> clip.refined_start,
                         refined_end |-> clip.refined_end,
                         standalone_score |-> clip.standalone_score,
                         verdict |-> clip.verdict,
                         editor_notes |-> clip.editor_notes]]

\* The adapter's filter letting REVISE clips through as well.
filter_passed_or_revised(clips) ==
    SelectSeq(clips, LAMBDA c : c.verdict \in {"PASS", "REVISE"})

\* passed_clips = [c for c in validated_clips if c['verdict'] == 'PASS']
filter_passed(clips) ==
    SelectSeq(clips, LAMBDA c : c.verdict = "PASS")

\* The rank by interest alone.
combined_score_interest_only(c) == c.interest_score * 100

\* combined_score with the default weights 0.6 / 0.4, in ten-thousandths.
combined_score(c) == c.interest_score * 60 + c.standalone_score * 40

\* sorted(packaged_clips, key=combined_score, reverse=True): stable, so clips
\* of equal score keep their order.
RECURSIVE sorted_by_combined_score(_)
sorted_by_combined_score(clips) ==
    IF clips = <<>> THEN <<>>
    ELSE LET rest == sorted_by_combined_score(Tail(clips))
             c == Head(clips)
             \* c goes before the first element of rest that does not beat it
             before == SelectSeq(rest, LAMBDA d : combined_score(d) > combined_score(c))
             after == SelectSeq(rest, LAMBDA d : combined_score(d) <= combined_score(c))
         IN before \o <<c>> \o after

\* _convert_to_legacy_format
convert_to_legacy_format(clips) ==
    [i \in DOMAIN clips |->
        [id |-> format_clip_id(i),
         start_time |-> clips[i].start_time,
         end_time |-> clips[i].end_time,
         duration |-> clips[i].duration,
         title |-> clips[i].title,
         interest_score |-> clips[i].interest_score,
         metadata |-> [standalone_score |-> clips[i].standalone_score,
                       hashtags |-> clips[i].hashtags,
                       thumbnail_time |-> clips[i].thumbnail_time,
                       layer1 |-> clips[i].layer1,
                       layer2 |-> clips[i].layer2,
                       layer3 |-> clips[i].layer3]]]

\* The end of analyze_transcript: rank, cut to target_clips, convert.
select_top_clips(packaged, target) ==
    convert_to_legacy_format(
        SubSeq(sorted_by_combined_score(packaged), 1, Min(target, Len(packaged))))

(***************************************************************************)
(* Inputs of the adapter model.                                            *)
(***************************************************************************)
MaxThoughts == 2

\* The i-th thought handed to Layer 3; the interest scores differ.
AdThought(i) ==
    Thought(i, 20 + i, 50 + i, 85, Moment(25 + i, 45 + i, 90 - 10 * (i % 3)))

AdThoughtLists == {[i \in 1..n |-> AdThought(i)] : n \in 1..MaxThoughts}

AdThoughtPool == {AdThought(i) : i \in 1..MaxThoughts}

TargetClips == {1, 2}

\* A judgment that leaves the start alone and puts the end at refined_end.
AdJudgment(standalone_score, refined_end, changes_made) ==
    [kind |-> "ok", has_score |-> TRUE, has_notes |-> TRUE,
     has_start |-> FALSE, refined_start |-> 0,
     has_end |-> TRUE, refined_end |-> refined_end,
     standalone_score |-> standalone_score, rejection_reason |-> "None",
     changes_made |-> changes_made]

\* Judgments, one per verdict class, that leave the bounds alone or move the
\* end; passing scores that make a later thought rank level with an earlier
\* one, or above it; a passing judgment whose end is a second before the
\* start of the thought; and one failure.
AdL3Responses(thought) ==
    {AdJudgment(sc, thought.expanded_end + d, IF d = 0 THEN "false" ELSE "true") :
         sc \in {REVISE_THRESHOLD - 1, REVISE_THRESHOLD, PASS_THRESHOLD},
         d \in {0, MaxShift}}
    \cup {AdJudgment(sc, thought.expanded_end, "missing") :
             sc \in {PASS_THRESHOLD + 15, 100}}
    \cup {AdJudgment(PASS_THRESHOLD, thought.expanded_start - 1, "true")}
    \cup {[kind |-> "api_error"]}

\* What the service may answer to one packaging request: a title of 60 or 61
\* characters, 4 or 6 hashtags, a thumbnail_time before the clip (with the
\* short title) or after it (with the long one).
L4Responses(clip) ==
    {[kind |-> "ok", complete |-> TRUE, title_len |-> n,
      hashtags |-> [k \in 1..h |-> k],
      thumbnail_time |-> IF n = MAX_TITLE_LENGTH THEN clip.refined_start - 1
                         ELSE clip.refined_end + 1] :
         n \in {MAX_TITLE_LENGTH, MAX_TITLE_LENGTH + 1},
         h \in {4, 6}}
    \cup {[kind |-> "ok", complete |-> FALSE]}
    \cup {[kind |-> k] : k \in {"parse_error", "rate_limit", "api_error"}}

(***************************************************************************)
(* analyze_transcript from Layer 3 on                                      *)
(***************************************************************************)
AdIdle ==
    /\ ad_pc = "idle"
    /\ target_clips = 0
    /\ passed_clips = <<>>
    /\ l4_idx = 0
    /\ packaged_clips = <<>>
    /\ legacy_clips = <<>>

AdInit(targets) ==
    /\ ad_pc = "layer3"
    /\ target_clips \in targets
    /\ passed_clips = <<>>
    /\ l4_idx = 0
    /\ packaged_clips = <<>>
    /\ legacy_clips = <<>>

\* refine_all has returned: the filter, and the early return when nothing
\* passed.
AdFilter ==
    /\ ad_pc = "layer3"
    /\ l3_pc = "done"
    /\ LET passed == filter_passed(validated_clips)
       IN /\ passed_clips' = passed
          /\ ad_pc' = IF passed = <<>> THEN "returned" ELSE "layer4"
    /\ UNCHANGED <<target_clips, l4_idx, packaged_clips, legacy_clips>>

\* package_all deals with the next clip; after the last one analyze_transcript
\* ranks, cuts and converts, and returns.
AdPackage ==
    /\ ad_pc = "layer4"
    /\ l4_idx < Len(passed_clips)
    /\ LET idx == l4_idx + 1
           clip == passed_clips[idx]
       IN \E outcome \in L4Responses(clip) :
            LET packaged == package_single(clip, idx, Segments, outcome)
                all == IF packaged # NonePackaging
                       THEN Append(packaged_clips, packaged)
                       ELSE packaged_clips
            IN /\ packaged_clips' = all
               /\ l4_idx' = idx
               /\ IF idx = Len(passed_clips)
                  THEN /\ ad_pc' = "returned"
                       /\ legacy_clips' = select_top_clips(all, target_clips)
                  ELSE UNCHANGED <<ad_pc, legacy_clips>>
    /\ UNCHANGED <<target_clips, passed_clips>>

(***************************************************************************)
(* Layer 1: the chunker                                                    *)
(*                                                                         *)
(* A segment of the Layer 1 model carries, next to its start time, the     *)
(* token count _estimate_tokens gives for its formatted line               *)
(* "[mm:ss] text\n"; ratios are percentages (0.10 is 10, 0.5 is 50).        *)
(***************************************************************************)
MAX_TRANSCRIPT_TOKENS == 21000
DEFAULT_OVERLAP_RATIO == 10
DEDUP_THRESHOLD == 50

\* self._estimate_tokens(f"[{format_timestamp(segment['start'])}] {segment['text']}\n")
segment_tokens(segment) == segment.tokens

\* sum(self._estimate_tokens(...) for s in current_chunk)
RECURSIVE chunk_tokens(_)
chunk_tokens(chunk) ==
    IF chunk = <<>> THEN 0
    ELSE segment_tokens(Head(chunk)) + chunk_tokens(Tail(chunk))

\* No segment carried over.
overlap_size_none(current_chunk) == 0

\* overlap_size = int(len(current_chunk) * self.DEFAULT_OVERLAP_RATIO)
overlap_size(current_chunk) == (Len(current_chunk) * DEFAULT_OVERLAP_RATIO) \div 100

\* One iteration of the loop of _chunk_segments over st = (chunks,
\* current_chunk, current_tokens).
chunk_segments_step(st, segment, max_tokens) ==
    LET tokens == segment_tokens(segment)
        closes == st.current_tokens + tokens > max_tokens /\ st.current_chunk # <<>>
        n == overlap_size(st.current_chunk)
        overlap_segments ==
            IF n > 0
            THEN SubSeq(st.current_chunk, Len(st.current_chunk) - n + 1,
                        Len(st.current_chunk))
            ELSE <<>>
        chunks == IF closes THEN Append(st.chunks, st.current_chunk) ELSE st.chunks
        current_chunk == IF closes THEN overlap_segments ELSE st.current_chunk
        current_tokens == IF closes THEN chunk_tokens(overlap_segments)
                          ELSE st.current_tokens
    IN [chunks |-> chunks,
        current_chunk |-> Append(current_chunk, segment),
        current_tokens |-> current_tokens + tokens]

RECURSIVE chunk_segments_loop(_, _, _)
chunk_segments_loop(st, segments, max_tokens) ==
    IF segments = <<>> THEN st
    ELSE chunk_segments_loop(chunk_segments_step(st, Head(segments), max_tokens),
                             Tail(segments), max_tokens)

\* The loop alone, the chunk being filled at its end left out.
chunk_segments_without_final_chunk(segments, max_tokens) ==
    chunk_segments_loop([chunks |-> <<>>, current_chunk |-> <<>>,
                         current_tokens |-> 0], segments, max_tokens).chunks

\* _chunk_segments: the loop, then the final chunk if it is not empty.
chunk_segments(segments, max_tokens) ==
    LET st == chunk_segments_loop([chunks |-> <<>>, current_chunk |-> <<>>,
                                   current_tokens |-> 0], segments, max_tokens)
    IN IF st.current_chunk # <<>> THEN Append(st.chunks, st.current_chunk)
       ELSE st.chunks

(***************************************************************************)
(* Inputs of the chunker model: up to MaxSegments segments that cost       *)
(* Tokens(1) each, but for at most one of another cost; budgets that are    *)
(* multiples of Tokens(1).                                                 *)
(***************************************************************************)
MaxSegments == 20

Tokens(k) == 10 * k

OtherTokens == {Tokens(11), Tokens(5) \div 2}

Budgets == {Tokens(k) : k \in {1, 2, 3, 10}}

ChunkerSegments(n, p, other) ==
    [i \in 1..n |-> [start |-> i, tokens |-> IF i = p THEN other ELSE Tokens(1)]]

ChunkerInputs ==
    {ChunkerSegments(n, p, other) : n \in 0..MaxSegments, p \in 0..MaxSegments,
                                     other \in OtherTokens}

CkInit ==
    /\ ck_segments \in ChunkerInputs
    /\ ck_max_tokens \in Budgets
    /\ ck_pc = "call"
    /\ ck_chunks = <<>>

CkIdle ==
    /\ ck_segments = <<>>
    /\ ck_max_tokens = 0
    /\ ck_pc = "idle"
    /\ ck_chunks = <<>>

\* The call of _chunk_segments.
CkChunkSegments ==
    /\ ck_pc = "call"
    /\ ck_chunks' = chunk_segments(ck_segments, ck_max_tokens)
    /\ ck_pc' = "returned"
    /\ UNCHANGED <<ck_segments, ck_max_tokens>>

(***************************************************************************)
(* Layer 1: merging the chunks' candidates                                 *)
(***************************************************************************)
\* all_moments: the candidates of all chunks, in the order of the chunks.
RECURSIVE all_moments_of(_)
all_moments_of(chunk_results) ==
    IF chunk_results = <<>> THEN <<>>
    ELSE Head(chunk_results) \o all_moments_of(Tail(chunk_results))

\* list.sort(key=lambda m: m['rough_start']): stable, ascending.
RECURSIVE insert_by_start(_, _)
insert_by_start(sorted, m) ==
    IF sorted = <<>> THEN <<m>>
    ELSE IF Head(sorted).rough_start <= m.rough_start
    THEN <<Head(sorted)>> \o insert_by_start(Tail(sorted), m)
    ELSE <<m>> \o sorted

RECURSIVE sort_by_start(_)
sort_by_start(moments) ==
    IF moments = <<>> THEN <<>>
    ELSE insert_by_start(sort_by_start(SubSeq(moments, 1, Len(moments) - 1)),
                         moments[Len(moments)])

\* The overlap measured against the longer of the two candidates.
calculate_overlap_max_duration(moment1, moment2) ==
    LET start == Max(moment1.rough_start, moment2.rough_start)
        end == Min(moment1.rough_end, moment2.rough_end)
        longer == Max(moment1.rough_end - moment1.rough_start,
                            moment2.rough_end - moment2.rough_start)
    IN IF start >= end THEN [num |-> 0, den |-> 1]
       ELSE IF longer > 0 THEN [num |-> end - start, den |-> longer]
       ELSE [num |-> 0, den |-> 1]

\* _calculate_overlap: the ratio overlap_duration / min_duration (shorter) as the
\* fraction num / den (den > 0).
calculate_overlap(moment1, moment2) ==
    LET start == Max(moment1.rough_start, moment2.rough_start)
        end == Min(moment1.rough_end, moment2.rough_end)
        shorter == Min(moment1.rough_end - moment1.rough_start,
                            moment2.rough_end - moment2.rough_start)
    IN IF start >= end THEN [num |-> 0, den |-> 1]
       ELSE IF shorter > 0 THEN [num |-> end - start, den |-> shorter]
       ELSE [num |-> 0, den |-> 1]

\* The threshold test reading "at least".
reaches_dedup_threshold(overlap) == 100 * overlap.num >= DEDUP_THRESHOLD * overlap.den

\* overlap > self.DEDUP_THRESHOLD
exceeds_dedup_threshold(overlap) == 100 * overlap.num > DEDUP_THRESHOLD * overlap.den

\* The inner loop of _merge_chunk_results for moment i, from j on: the set
\* skip_indices it leaves.
RECURSIVE merge_inner_loop(_, _, _, _)
merge_inner_loop(all_moments, i, j, skip_indices) ==
    IF j > Len(all_moments) THEN skip_indices
    ELSE IF j \in skip_indices THEN merge_inner_loop(all_moments, i, j + 1, skip_indices)
    ELSE IF all_moments[j].rough_start > all_moments[i].rough_end THEN skip_indices
    ELSE IF exceeds_dedup_threshold(calculate_overlap(all_moments[i], all_moments[j]))
    THEN IF all_moments[j].interest_score > all_moments[i].interest_score
         THEN skip_indices \cup {i}
         ELSE merge_inner_loop(all_moments, i, j + 1, skip_indices \cup {j})
    ELSE merge_inner_loop(all_moments, i, j + 1, skip_indices)

\* The outer loop from moment i on.
RECURSIVE merge_outer_loop(_, _, _, _)
merge_outer_loop(all_moments, i, skip_indices, deduped) ==
    IF i > Len(all_moments) THEN deduped
    ELSE IF i \in skip_indices
    THEN merge_outer_loop(all_moments, i + 1, skip_indices, deduped)
    ELSE LET skip == merge_inner_loop(all_moments, i, i + 1, skip_indices)
         IN merge_outer_loop(all_moments, i + 1, skip,
                             IF i \notin skip THEN Append(deduped, all_moments[i])
                             ELSE deduped)

\* _merge_chunk_results (source_chunk is set and removed again).
merge_chunk_results(chunk_results) ==
    merge_outer_loop(sort_by_start(all_moments_of(chunk_results)), 1, {}, <<>>)

(***************************************************************************)
(* Inputs of the merge model: up to MaxCandidates candidates, spread over  *)
(* two chunks, with equal starts, equal scores and zero-length candidates. *)
(***************************************************************************)
MaxCandidates == 3

MergePool ==
    {Moment(s, s + d, sc) : s \in 0..2, d \in {2, 4}, sc \in {50, 90}}
        \cup {Moment(1, 1, 50)}

\* n candidates q, the first k of them from the first chunk.
MgInit ==
    /\ \E n \in 0..MaxCandidates :
          \E q \in [1..n -> MergePool], k \in 0..n :
              mg_chunk_results = <<SubSeq(q, 1, k), SubSeq(q, k + 1, n)>>
    /\ mg_pc = "call"
    /\ mg_deduped = <<>>

MgIdle ==
    /\ mg_chunk_results = <<>>
    /\ mg_pc = "idle"
    /\ mg_deduped = <<>>

\* The call of _merge_chunk_results.
MgMergeChunkResults ==
    /\ mg_pc = "call"
    /\ mg_deduped' = merge_chunk_results(mg_chunk_results)
    /\ mg_pc' = "returned"
    /\ UNCHANGED mg_chunk_results

(***************************************************************************)
(* The retry loop around a service request                                 *)
(*                                                                         *)
(* What the service does at one call: it answers (kind "ok", "parse_error") *)
(* or the client raises (kind "error").  An error carries what the code     *)
(* reads off str(e): whether the text holds "rate_limit_exceeded", whether  *)
(* it holds "429", and the N of a "try again in Ns" if the text has one.    *)
(* is_429 tells whether the service did refuse the call for its rate        *)
(* limit; such an error's text begins "Error code: 429".                   *)
(***************************************************************************)
BASE_DELAY == 2

ServiceError(is_429, rate_limit_exceeded, has_429, has_hint, hint) ==
    [kind |-> "error", is_429 |-> is_429,
     mentions_rate_limit_exceeded |-> rate_limit_exceeded,
     mentions_429 |-> has_429, has_hint |-> has_hint, hint |-> hint]

\* if "rate_limit_exceeded" in error_str or "429" in error_str
is_rate_limit(error) == error.mentions_rate_limit_exceeded \/ error.mentions_429

\* The backoff doubled once too often.
rate_limit_wait_next_attempt(attempt, error) ==
    IF error.has_hint THEN error.hint + 1 ELSE BASE_DELAY * 2 ^ (attempt + 1)

\* wait_time = base_delay * (2 ** attempt), or the suggested seconds + 1.0 when
\* re.search(r'try again in (\d+\.?\d*)s', error_str) matches.
rate_limit_wait(attempt, error) ==
    IF error.has_hint THEN error.hint + 1 ELSE BASE_DELAY * 2 ^ attempt

\* The except Exception branch of a retry loop: sleep and go round again, or
\* give up the way the layer gives up.
retry_on_error(attempt, error, gives_up) ==
    IF is_rate_limit(error)
    THEN IF attempt < MAX_RETRIES - 1
         THEN [kind |-> "retry", wait |-> rate_limit_wait(attempt, error)]
         ELSE gives_up
    ELSE gives_up

(***************************************************************************)
(* Layer 1: detect                                                         *)
(***************************************************************************)
\* A candidate of the response lacking a required key.
InvalidCandidate == [content_type |-> "general"]

valid_candidate(candidate) ==
    {"rough_start", "rough_end", "interest_score"} \subseteq DOMAIN candidate

\* sorted(moments, key=lambda m: m['interest_score'], reverse=True): stable.
RECURSIVE insert_by_interest_score(_, _)
insert_by_interest_score(sorted, m) ==
    IF sorted = <<>> THEN <<m>>
    ELSE IF Head(sorted).interest_score >= m.interest_score
    THEN <<Head(sorted)>> \o insert_by_interest_score(Tail(sorted), m)
    ELSE <<m>> \o sorted

RECURSIVE sorted_by_interest_score(_)
sorted_by_interest_score(moments) ==
    IF moments = <<>> THEN <<>>
    ELSE insert_by_interest_score(
             sorted_by_interest_score(SubSeq(moments, 1, Len(moments) - 1)),
             moments[Len(moments)])

\* _parse_moments: the valid candidates, best first.
parse_moments(candidates) ==
    sorted_by_interest_score(SelectSeq(candidates, valid_candidate))

\* One attempt of the retry loop of _detect_single_chunk.  outcome.kind is
\* "ok" (a JSON object with a candidates list), "parse_error" (no JSON, or a
\* KeyError), "not_an_object" (JSON of another shape: the AttributeError or
\* TypeError of _parse_moments reaches the outer handler) or "error".
detect_single_chunk_attempt(attempt, outcome) ==
    IF outcome.kind = "ok"
    THEN [kind |-> "return", moments |-> parse_moments(outcome.candidates)]
    ELSE IF outcome.kind = "parse_error"
    THEN [kind |-> "return", moments |-> <<>>]
    ELSE IF outcome.kind = "not_an_object"
    THEN [kind |-> "raise"]
    ELSE retry_on_error(attempt, outcome, [kind |-> "raise"])

\* Whether detect sends the whole transcript in one request.
fits_one_request(segments) == chunk_tokens(segments) <= MAX_TRANSCRIPT_TOKENS

\* moments = self._detect_single_chunk(...): returned as it comes.
detect_single_result(moments, target_moments) == moments

\* The chunked path of detect after the loop: merge, sort, cut.
detect_chunked_result(chunk_results, target_moments) ==
    LET moments == sorted_by_interest_score(merge_chunk_results(chunk_results))
    IN SubSeq(moments, 1, Min(target_moments, Len(moments)))

(***************************************************************************)
(* Inputs of the detect model: up to MaxL1Segments segments of half the    *)
(* request budget each (so that three or more need chunks), and responses   *)
(* of up to MaxReturned candidates.                                        *)
(***************************************************************************)
MaxL1Segments == 5

MaxReturned == 2

L1SegmentLists ==
    {[i \in 1..n |-> [start |-> 60 * i, tokens |-> MAX_TRANSCRIPT_TOKENS \div 2]] :
        n \in 0..MaxL1Segments}

L1Targets == {1, 2}

DetectPool == {Moment(0, 10, 90), Moment(4, 12, 70), Moment(20, 30, 80)}

RateLimitError == ServiceError(TRUE, TRUE, TRUE, FALSE, 0)

ApiError == ServiceError(FALSE, FALSE, FALSE, FALSE, 0)

L1Responses ==
    {[kind |-> "ok", candidates |-> q] :
        q \in UNION {[1..n -> DetectPool \cup {InvalidCandidate}] : n \in 0..MaxReturned}}
    \cup {[kind |-> "parse_error"], [kind |-> "not_an_object"]}
    \cup {RateLimitError, ApiError}

\* Where detect stands when it has looked at the segments.
L1Enter(segments) ==
    IF segments = <<>> THEN [pc |-> "returned", chunks |-> <<>>]
    ELSE IF fits_one_request(segments) THEN [pc |-> "single", chunks |-> <<>>]
    ELSE [pc |-> "chunks", chunks |-> chunk_segments(segments, MAX_TRANSCRIPT_TOKENS)]

L1Init(segmentLists, targets) ==
    /\ l1_segments \in segmentLists
    /\ l1_target \in targets
    /\ l1_pc = L1Enter(l1_segments).pc
    /\ l1_chunks = L1Enter(l1_segments).chunks
    /\ l1_i = 1
    /\ l1_attempt = 0
    /\ l1_chunk_results = <<>>
    /\ l1_moments = <<>>
    /\ l1_requests = 0
    /\ l1_delays = <<>>
    /\ l1_request_log = {}

L1Idle ==
    /\ l1_segments = <<>>
    /\ l1_target = 0
    /\ l1_pc = "idle"
    /\ l1_chunks = <<>>
    /\ l1_i = 1
    /\ l1_attempt = 0
    /\ l1_chunk_results = <<>>
    /\ l1_moments = <<>>
    /\ l1_requests = 0
    /\ l1_delays = <<>>
    /\ l1_request_log = {}

\* The sleep after every chunk, the last one too.
wait_between_chunks_after_every_chunk(i, chunks) == i <= Len(chunks)

\* if i < len(chunks): time.sleep(60)
wait_between_chunks(i, chunks) == i < Len(chunks)

\* One attempt of _detect_single_chunk for the transcript or the chunk at
\* hand and, when the call ends, what detect does with its result: return or
\* raise (single request); append and then sleep or, after the last chunk,
\* merge, sort, cut and return (chunks).
L1Attempt(Responses) ==
    /\ l1_pc \in {"single", "chunks"}
    /\ \E outcome \in Responses :
         LET r == detect_single_chunk_attempt(l1_attempt, outcome)
             chunk_moments == IF r.kind = "return" THEN r.moments ELSE <<>>
             results == Append(l1_chunk_results, chunk_moments)
         IN /\ l1_requests' = l1_requests + 1
            /\ l1_request_log' =
                  IF l1_pc = "chunks"
                  THEN l1_request_log \cup {[chunk |-> l1_i,
                                             ended |-> Len(l1_chunk_results),
                                             delays |-> Len(l1_delays)]}
                  ELSE l1_request_log
            /\ IF r.kind = "retry"
               THEN /\ l1_attempt' = l1_attempt + 1
                    /\ UNCHANGED <<l1_pc, l1_i, l1_chunk_results, l1_moments>>
               ELSE IF l1_pc = "single"
               THEN /\ l1_attempt' = 0
                    /\ l1_pc' = IF r.kind = "return" THEN "returned" ELSE "raised"
                    /\ l1_moments' = IF r.kind = "return"
                                     THEN detect_single_result(r.moments, l1_target)
                                     ELSE <<>>
                    /\ UNCHANGED <<l1_i, l1_chunk_results>>
               ELSE /\ l1_attempt' = 0
                    /\ l1_chunk_results' = results
                    /\ IF wait_between_chunks(l1_i, l1_chunks)
                       THEN /\ l1_pc' = "wait"
                            /\ UNCHANGED <<l1_i, l1_moments>>
                       ELSE /\ l1_pc' = "returned"
                            /\ l1_moments' = detect_chunked_result(results, l1_target)
                            /\ UNCHANGED l1_i
    /\ UNCHANGED <<l1_segments, l1_target, l1_chunks, l1_delays>>

\* time.sleep(60) has returned: on to the next chunk, or to the merge when
\* there is none.
L1Wait ==
    /\ l1_pc = "wait"
    /\ l1_delays' = Append(l1_delays, l1_i)
    /\ IF l1_i < Len(l1_chunks)
       THEN /\ l1_i' = l1_i + 1
            /\ l1_pc' = "chunks"
            /\ UNCHANGED l1_moments
       ELSE /\ l1_pc' = "returned"
            /\ l1_moments' = detect_chunked_result(l1_chunk_results, l1_target)
            /\ UNCHANGED l1_i
    /\ UNCHANGED <<l1_segments, l1_target, l1_chunks, l1_attempt, l1_chunk_results,
                   l1_requests, l1_request_log>>

(***************************************************************************)
(* The retry loops of the four layers, one unit of work each               *)
(***************************************************************************)
\* The retry loop of _analyze_single: every way out but the rate limit
\* returns (a thought or None).
analyze_single_retry(attempt, outcome) ==
    IF outcome.kind = "error"
    THEN retry_on_error(attempt, outcome, [kind |-> "return"])
    ELSE [kind |-> "return"]

\* The retry loop of _validate_single.
validate_single_retry(attempt, outcome) ==
    IF outcome.kind = "error"
    THEN retry_on_error(attempt, outcome, [kind |-> "return"])
    ELSE [kind |-> "return"]

\* The retry loop of _generate_packaging.
generate_packaging_retry(attempt, outcome) ==
    IF outcome.kind = "error"
    THEN retry_on_error(attempt, outcome, [kind |-> "return"])
    ELSE [kind |-> "return"]

layer_attempt(layer, attempt, outcome) ==
    IF layer = 1 THEN detect_single_chunk_attempt(attempt, outcome)
    ELSE IF layer = 2 THEN analyze_single_retry(attempt, outcome)
    ELSE IF layer = 3 THEN validate_single_retry(attempt, outcome)
    ELSE generate_packaging_retry(attempt, outcome)

\* What the service may do at one call: answer; refuse for the rate limit,
\* with or without a "try again in Ns"; fail otherwise, with a text that may
\* hold the digits 429 (a token count, a request id).
RtOutcomes ==
    {[kind |-> "ok", candidates |-> <<>>], [kind |-> "parse_error"],
     [kind |-> "not_an_object"]}
    \cup {ServiceError(TRUE, TRUE, TRUE, FALSE, 0)}
    \cup {ServiceError(TRUE, TRUE, TRUE, TRUE, n) : n \in {0, 20}}
    \cup {ServiceError(FALSE, FALSE, b, FALSE, 0) : b \in BOOLEAN}

RtInit ==
    /\ rt_layer \in 1..4
    /\ rt_pc = "call"
    /\ rt_attempt = 0
    /\ rt_outcomes = <<>>
    /\ rt_waits = <<>>

RtIdle ==
    /\ rt_layer = 0
    /\ rt_pc = "idle"
    /\ rt_attempt = 0
    /\ rt_outcomes = <<>>
    /\ rt_waits = <<>>

\* One turn of the loop: the request, and the sleep before the next turn or
\* the way out.
RtCall ==
    /\ rt_pc = "call"
    /\ \E outcome \in RtOutcomes :
         LET r == layer_attempt(rt_layer, rt_attempt, outcome)
         IN /\ rt_outcomes' = Append(rt_outcomes, outcome)
            /\ IF r.kind = "retry"
               THEN /\ rt_waits' = Append(rt_waits, r.wait)
                    /\ rt_attempt' = rt_attempt + 1
                    /\ UNCHANGED rt_pc
               ELSE /\ rt_pc' = IF r.kind = "raise" THEN "raised" ELSE "returned"
                    /\ UNCHANGED <<rt_waits, rt_attempt>>
    /\ UNCHANGED rt_layer

(***************************************************************************)
(* SentenceBoundaryDetector.align_clip_to_boundaries                       *)
(*                                                                         *)
(* A boundary is kept as its time and type; an Optional[float] argument as  *)
(* a record that says whether it is None.                                  *)
(***************************************************************************)
NoneBoundary == [found |-> FALSE, time |-> 0, type |-> "None"]

NoneFloat == [is_none |-> TRUE, value |-> 0]

SomeFloat(x) == [is_none |-> FALSE, value |-> x]

\* The search with max_distance left out of account.
find_nearest_boundary_before_any_distance(timestamp, boundaries, max_distance) ==
    LET candidates == SelectSeq(boundaries, LAMBDA b : b.time <= timestamp)
        k == CHOOSE i \in DOMAIN candidates :
                 \A j \in DOMAIN candidates : candidates[i].time >= candidates[j].time
    IN IF candidates = <<>> THEN NoneBoundary
       ELSE [found |-> TRUE, time |-> candidates[k].time, type |-> candidates[k].type]

\* The candidates are sorted by their distance to the timestamp (a stable
\* sort) and the first is taken: the closest one, the earliest in the list
\* among equals.
find_nearest_boundary_before(timestamp, boundaries, max_distance) ==
    LET candidates == SelectSeq(boundaries, LAMBDA b : b.time <= timestamp)
        k == CHOOSE i \in DOMAIN candidates :
                 \A j \in DOMAIN candidates :
                     \/ candidates[i].time > candidates[j].time
                     \/ candidates[i].time = candidates[j].time /\ i <= j
        nearest == candidates[k]
    IN IF candidates = <<>> THEN NoneBoundary
       ELSE IF ~max_distance.is_none /\ timestamp - nearest.time > max_distance.value
       THEN NoneBoundary
       ELSE [found |-> TRUE, time |-> nearest.time, type |-> nearest.type]

\* The search with no regard to max_distance.
find_nearest_boundary_after_any_distance(timestamp, boundaries, max_distance) ==
    LET candidates == SelectSeq(boundaries, LAMBDA b : b.time >= timestamp)
        k == CHOOSE i \in DOMAIN candidates :
                 \A j \in DOMAIN candidates : candidates[i].time <= candidates[j].time
    IN IF candidates = <<>> THEN NoneBoundary
       ELSE [found |-> TRUE, time |-> candidates[k].time, type |-> candidates[k].type]

find_nearest_boundary_after(timestamp, boundaries, max_distance) ==
    LET candidates == SelectSeq(boundaries, LAMBDA b : b.time >= timestamp)
        k == CHOOSE i \in DOMAIN candidates :
                 \A j \in DOMAIN candidates :
                     \/ candidates[i].time < candidates[j].time
                     \/ candidates[i].time = candidates[j].time /\ i <= j
        nearest == candidates[k]
    IN IF candidates = <<>> THEN NoneBoundary
       ELSE IF ~max_distance.is_none /\ nearest.time - timestamp > max_distance.value
       THEN NoneBoundary
       ELSE [found |-> TRUE, time |-> nearest.time, type |-> nearest.type]

\* The search for a better end with no limit on the distance.
trim_end_unlimited(adjusted_start, max_clip_duration, boundaries) ==
    find_nearest_boundary_before(adjusted_start + max_clip_duration, boundaries,
                                 NoneFloat)

\* end_trim = self.find_nearest_boundary_before(trimmed_end, boundaries,
\*                                              max_distance=5.0)
trim_end(adjusted_start, max_clip_duration, boundaries) ==
    find_nearest_boundary_before(adjusted_start + max_clip_duration, boundaries,
                                 SomeFloat(5))

\* A floor of 3 s.
absurdly_short_under_three(final_duration) == final_duration < 3

\* if final_duration < 8.0
absurdly_short(final_duration) == final_duration < 8

\* The final check left out.
final_sanity_check_none(start_time, end_time, adjusted_start, adjusted_end) ==
    [adjusted_start |-> adjusted_start, adjusted_end |-> adjusted_end]

\* if final_duration < 8.0: use the original timestamps
final_sanity_check(start_time, end_time, adjusted_start, adjusted_end) ==
    IF absurdly_short(adjusted_end - adjusted_start)
    THEN [adjusted_start |-> start_time, adjusted_end |-> end_time]
    ELSE [adjusted_start |-> adjusted_start, adjusted_end |-> adjusted_end]

align_clip_to_boundaries(start_time, end_time, boundaries, max_adjustment, min_clip_duration, max_clip_duration) ==
    LET start_boundary == find_nearest_boundary_before(start_time, boundaries,
                                                       SomeFloat(max_adjustment))
        end_boundary == find_nearest_boundary_after(end_time, boundaries,
                                                    SomeFloat(max_adjustment))
        start1 == IF start_boundary.found THEN start_boundary.time ELSE start_time
        end1 == IF end_boundary.found THEN end_boundary.time ELSE end_time
        \* the clip must not get inverted
        end2 == IF end1 <= start1 THEN end_time ELSE end1
        \* original_duration > 0 and adjusted_duration < original_duration * 0.2
        original_duration == end_time - start_time
        destroyed == original_duration > 0 /\ 5 * (end2 - start1) < original_duration
        adjusted_start == IF destroyed THEN start_time ELSE start1
        end3 == IF destroyed THEN end_time ELSE end2
        duration == end3 - adjusted_start
        \* too short: try to extend the end
        end_extension ==
            find_nearest_boundary_after(adjusted_start + min_clip_duration.value,
                                        boundaries, SomeFloat(5))
        end4 == IF ~min_clip_duration.is_none /\ duration < min_clip_duration.value
                   /\ end_extension.found
                THEN end_extension.time ELSE end3
        \* too long: try to trim the end
        end_trim == trim_end(adjusted_start, max_clip_duration.value, boundaries)
        end5 == IF ~max_clip_duration.is_none /\ duration > max_clip_duration.value
                   /\ end_trim.found
                THEN end_trim.time ELSE end4
        final == final_sanity_check(start_time, end_time, adjusted_start, end5)
    IN [adjusted_start |-> final.adjusted_start,
        adjusted_end |-> final.adjusted_end,
        start_aligned |-> start_boundary.found,
        end_aligned |-> end_boundary.found,
        start_boundary_type |-> start_boundary.type,
        end_boundary_type |-> end_boundary.type]

(***************************************************************************)
(* Inputs of the aligner model.                                            *)
(***************************************************************************)
BoundaryTimes == {5, 10, 13, 20, 28, 33, 38, 72}

\* The boundaries at the times of T, in the order of the time, as
\* find_sentence_boundaries returns them.
RECURSIVE BoundaryList(_)
BoundaryList(T) ==
    IF T = {} THEN <<>>
    ELSE LET t == CHOOSE x \in T : \A y \in T : x <= y
         IN <<[time |-> t, type |-> IF t % 2 = 0 THEN "sentence_end" ELSE "pause"]>>
            \o BoundaryList(T \ {t})

AlClips == {<<10, 30>>, <<10, 70>>, <<12, 17>>}

AlInit ==
    /\ \E clip \in AlClips : al_start_time = clip[1] /\ al_end_time = clip[2]
    /\ al_boundaries \in {BoundaryList(T) : T \in SUBSET BoundaryTimes}
    /\ al_max_adjustment \in {3, 10, 60}
    /\ al_min_clip_duration \in {NoneFloat, SomeFloat(25)}
    /\ al_max_clip_duration \in
          {NoneFloat, SomeFloat(3), SomeFloat(10), SomeFloat(27), SomeFloat(30)}
    /\ al_pc = "call"
    /\ al_ret = [adjusted_start |-> 0, adjusted_end |-> 0]
    /\ al_again = [adjusted_start |-> 0, adjusted_end |-> 0]

AlIdle ==
    /\ al_start_time = 0
    /\ al_end_time = 0
    /\ al_boundaries = <<>>
    /\ al_max_adjustment = 0
    /\ al_min_clip_duration = NoneFloat
    /\ al_max_clip_duration = NoneFloat
    /\ al_pc = "idle"
    /\ al_ret = [adjusted_start |-> 0, adjusted_end |-> 0]
    /\ al_again = [adjusted_start |-> 0, adjusted_end |-> 0]

\* The call of align_clip_to_boundaries.
AlAlign ==
    /\ al_pc = "call"
    /\ al_ret' = align_clip_to_boundaries(al_start_time, al_end_time, al_boundaries,
                                          al_max_adjustment, al_min_clip_duration,
                                          al_max_clip_duration)
    /\ al_pc' = "returned"
    /\ UNCHANGED <<al_start_time, al_end_time, al_boundaries, al_max_adjustment,
                   al_min_clip_duration, al_max_clip_duration, al_again>>

\* A second call, on the pair the first returned, with the same boundary
\* list and the same settings.
AlRealign ==
    /\ al_pc = "returned"
    /\ al_again' = align_clip_to_boundaries(al_ret.adjusted_start, al_ret.adjusted_end,
                                            al_boundaries, al_max_adjustment,
                                            al_min_clip_duration, al_max_clip_duration)
    /\ al_pc' = "realigned"
    /\ UNCHANGED <<al_start_time, al_end_time, al_boundaries, al_max_adjustment,
                   al_min_clip_duration, al_max_clip_duration, al_ret>>

(***************************************************************************)
(* analyze_transcript from Layer 1 on                                      *)
(***************************************************************************)
\* The transcripts of the pipeline model: no segment at all, or the three
\* segments, each with the token count of its line, small enough for one
\* request or not.
PlTranscript(tokens) ==
    [i \in DOMAIN Segments |->
        [start |-> Segments[i].start, end |-> Segments[i].end,
         text |-> Segments[i].text, tokens |-> tokens]]

PlTranscripts ==
    {<<>>, PlTranscript(Tokens(1)), PlTranscript(MAX_TRANSCRIPT_TOKENS \div 2)}

PlPool == {Moment(40, 50, 90), Moment(60, 70, 70)}

PlL1Responses ==
    {[kind |-> "ok", candidates |-> q] :
        q \in UNION {[1..n -> PlPool] : n \in 0..2}}
    \cup {[kind |-> "parse_error"], ApiError}

PlL2Responses(moment) ==
    {[kind |-> "ok", complete |-> TRUE, expanded_start |-> moment.rough_start - 5,
      expanded_end |-> moment.rough_end + 5, confidence |-> 85],
     [kind |-> "parse_error"]}

\* The thoughts Layer 2 can make of the candidates of the pipeline model.
PlThoughtPool ==
    {Thought(i, m.rough_start - 5, m.rough_end + 5, 85, m) : i \in 1..2, m \in PlPool}

PlL3Responses(thought) ==
    {[kind |-> "ok", has_score |-> TRUE, has_notes |-> TRUE,
      has_start |-> FALSE, refined_start |-> 0,
      has_end |-> FALSE, refined_end |-> 0,
      standalone_score |-> sc, rejection_reason |-> "None",
      changes_made |-> "false"] :
         sc \in {REVISE_THRESHOLD - 1, REVISE_THRESHOLD, PASS_THRESHOLD}}
    \cup {[kind |-> "api_error"]}

\* target_moments=int(target_clips * 2.5)
adapter_target_moments(target) == (target * 25) \div 10

\* analyze_transcript without its first early return.
no_moments_ignored(moments) == FALSE

\* if not moments: return []
no_moments(moments) == moments = <<>>

PlInit ==
    /\ ad_pc = "layer1"
    /\ target_clips \in TargetClips
    /\ passed_clips = <<>>
    /\ l4_idx = 0
    /\ packaged_clips = <<>>
    /\ legacy_clips = <<>>
    /\ L1Init(PlTranscripts, {adapter_target_moments(t) : t \in TargetClips})
    /\ l1_target = adapter_target_moments(target_clips)

\* Layer 1 at work.
PlDetect ==
    /\ ad_pc = "layer1"
    /\ L1Attempt(PlL1Responses)

\* detect sleeps between two chunks.
PlSleep ==
    /\ ad_pc = "layer1"
    /\ L1Wait

\* detect is back: its exception goes to the caller; with no moments
\* analyze_transcript returns []; otherwise analyze_all(moments,
\* transcript_data, parallel=True) starts.
PlAfterDetect ==
    /\ ad_pc = "layer1"
    /\ l1_pc \in {"returned", "raised"}
    /\ IF l1_pc = "raised"
       THEN ad_pc' = "raised" /\ UNCHANGED l2vars
       ELSE IF no_moments(l1_moments)
       THEN ad_pc' = "returned" /\ UNCHANGED l2vars
       ELSE /\ ad_pc' = "layer2"
            /\ l2_moments' = l1_moments
            /\ l2_parallel' = TRUE
            /\ l2_max_workers' = 0
            /\ l2_pc' = IF Len(l1_moments) > 1 THEN "submit" ELSE "seq"
            /\ l2_idx' = 0
            /\ l2_task' = [i \in DOMAIN l1_moments |-> [st |-> "new", attempt |-> 0]]
            /\ l2_collected' = {}
            /\ l2_thoughts' = <<>>
            /\ l2_metrics' = [thoughts_analyzed |-> 0, avg_expansion_ratio |-> 0]
    /\ UNCHANGED <<target_clips, passed_clips, l4_idx, packaged_clips, legacy_clips>>

\* analyze_all is back: its exception goes to the caller; with no thoughts
\* analyze_transcript returns []; otherwise refine_all starts.
PlAfterAnalyze ==
    /\ ad_pc = "layer2"
    /\ l2_pc \in {"returned", "raised"}
    /\ IF l2_pc = "raised"
       THEN ad_pc' = "raised" /\ UNCHANGED l3vars
       ELSE IF l2_thoughts = <<>>
       THEN ad_pc' = "returned" /\ UNCHANGED l3vars
       ELSE /\ ad_pc' = "layer3"
            /\ l3_thoughts' = l2_thoughts
            /\ min_duration' = 0
            /\ max_duration' = 0
            /\ l3_idx' = 1
            /\ l3_pc' = L3Enter(l2_thoughts, 1).pc
            /\ current_start' = L3Enter(l2_thoughts, 1).start
            /\ current_end' = L3Enter(l2_thoughts, 1).end
            /\ iteration' = 0
            /\ refinement_history' = <<>>
            /\ judgments' = <<>>
            /\ l3_ret' = [verdict |-> "Running"]
            /\ validated_clips' = <<>>
            /\ l3_metrics' = NoMetrics
            /\ l3_no_change_reports' = 0
    /\ UNCHANGED <<target_clips, passed_clips, l4_idx, packaged_clips, legacy_clips>>

(***************************************************************************)
(* SentenceBoundaryDetector.find_sentence_boundaries                       *)
(*                                                                         *)
(* Times are counted in half seconds.  Of a segment's text the model keeps *)
(* what the two text tests say of it: has_sentence_ending and              *)
(* starts_with_transition.  Confidences are hundredths.                    *)
(***************************************************************************)
\* min_pause_threshold: float = 0.5
MIN_PAUSE_THRESHOLD == 1

Boundary(time, type, confidence, segment_index) ==
    [time |-> time, type |-> type, confidence |-> confidence,
     segment_index |-> segment_index]

\* What the loop body appends for segment i (segment_index i - 1).
segment_boundaries(transcript_segments, i) ==
    LET segment == transcript_segments[i]
        end_time == segment.end
        has_next == i < Len(transcript_segments)
        next_segment == transcript_segments[i + 1]
        sentence_end ==
            IF segment.has_sentence_ending
            THEN <<Boundary(end_time, "sentence_end", 90, i - 1)>> ELSE <<>>
        pause ==
            IF has_next /\ next_segment.start - end_time >= MIN_PAUSE_THRESHOLD
            THEN <<Boundary(end_time, "pause", 70, i - 1)>> ELSE <<>>
        topic_transition ==
            IF has_next /\ segment.has_sentence_ending
                  /\ next_segment.starts_with_transition
            THEN <<Boundary(next_segment.start, "topic_transition", 85, i - 1)>>
            ELSE <<>>
    IN sentence_end \o pause \o topic_transition

\* for i, segment in enumerate(transcript_segments), from segment i on.
RECURSIVE emitted_boundaries(_, _)
emitted_boundaries(transcript_segments, i) ==
    IF i > Len(transcript_segments) THEN <<>>
    ELSE segment_boundaries(transcript_segments, i)
            \o emitted_boundaries(transcript_segments, i + 1)

\* The first boundary seen at a timestamp is kept whatever comes later.
deduplicate_step_keep_first(unique, boundary) ==
    IF \A k \in DOMAIN unique : unique[k].time # boundary.time
    THEN Append(unique, boundary)
    ELSE unique

\* The body of the loop of _deduplicate_boundaries.
deduplicate_step(unique, boundary) ==
    IF \A k \in DOMAIN unique : unique[k].time # boundary.time
    THEN Append(unique, boundary)
    ELSE LET e == CHOOSE k \in DOMAIN unique :
                     /\ unique[k].time = boundary.time
                     /\ \A j \in 1..(k - 1) : unique[j].time # boundary.time
         IN IF boundary.confidence > unique[e].confidence
            THEN Append(SubSeq(unique, 1, e - 1) \o SubSeq(unique, e + 1, Len(unique)),
                        boundary)
            ELSE unique

RECURSIVE deduplicate_loop(_, _)
deduplicate_loop(boundaries, unique) ==
    IF boundaries = <<>> THEN unique
    ELSE deduplicate_loop(Tail(boundaries), deduplicate_step(unique, Head(boundaries)))

deduplicate_boundaries(boundaries) == deduplicate_loop(boundaries, <<>>)

\* boundaries.sort(key=lambda x: x['time']): stable, ascending.
RECURSIVE insert_by_time(_, _)
insert_by_time(sorted, b) ==
    IF sorted = <<>> THEN <<b>>
    ELSE IF Head(sorted).time <= b.time
    THEN <<Head(sorted)>> \o insert_by_time(Tail(sorted), b)
    ELSE <<b>> \o sorted

RECURSIVE sort_by_time(_)
sort_by_time(boundaries) ==
    IF boundaries = <<>> THEN <<>>
    ELSE insert_by_time(sort_by_time(SubSeq(boundaries, 1, Len(boundaries) - 1)),
                        boundaries[Len(boundaries)])

find_sentence_boundaries(transcript_segments) ==
    sort_by_time(deduplicate_boundaries(emitted_boundaries(transcript_segments, 1)))

(***************************************************************************)
(* Inputs of the boundary model: up to MaxBdSegments segments, in any      *)
(* order, touching, apart, overlapping or of no length.                    *)
(***************************************************************************)
MaxBdSegments == 3

BdSegmentPool ==
    {[start |-> s, end |-> s + d, has_sentence_ending |-> e,
      starts_with_transition |-> t] :
        s \in 0..2, d \in 0..1, e \in BOOLEAN, t \in BOOLEAN}

BdInit ==
    /\ \E n \in 0..MaxBdSegments : bd_segments \in [1..n -> BdSegmentPool]
    /\ bd_pc = "call"
    /\ bd_emitted = <<>>
    /\ bd_boundaries = <<>>

BdIdle ==
    /\ bd_segments = <<>>
    /\ bd_pc = "idle"
    /\ bd_emitted = <<>>
    /\ bd_boundaries = <<>>

\* The call of find_sentence_boundaries; bd_emitted is the list before
\* _deduplicate_boundaries.
BdFindSentenceBoundaries ==
    /\ bd_pc = "call"
    /\ bd_emitted' = emitted_boundaries(bd_segments, 1)
    /\ bd_boundaries' = find_sentence_boundaries(bd_segments)
    /\ bd_pc' = "returned"
    /\ UNCHANGED bd_segments

(***************************************************************************)
(* SegmentScorer.filter_overlapping                                        *)
(*                                                                         *)
(* A segment carries its place in the argument list as id, which stands    *)
(* for the identity of the dict.  overlap_threshold is in percent.         *)
(***************************************************************************)
\* The overlap measured against the longer of the two segments.
segment_overlap_max_duration(segment1, segment2) ==
    LET overlap_start == Max(segment1.start_time, segment2.start_time)
        overlap_end == Min(segment1.end_time, segment2.end_time)
        longer == Max(segment1.end_time - segment1.start_time,
                      segment2.end_time - segment2.start_time)
    IN IF overlap_start >= overlap_end THEN [num |-> 0, den |-> 1]
       ELSE IF longer > 0 THEN [num |-> overlap_end - overlap_start, den |-> longer]
       ELSE [num |-> 0, den |-> 1]

\* SegmentScorer._calculate_overlap: overlap_duration / min_duration as the
\* fraction num / den (den > 0).
segment_overlap(segment1, segment2) ==
    LET overlap_start == Max(segment1.start_time, segment2.start_time)
        overlap_end == Min(segment1.end_time, segment2.end_time)
        shorter == Min(segment1.end_time - segment1.start_time,
                       segment2.end_time - segment2.start_time)
    IN IF overlap_start >= overlap_end THEN [num |-> 0, den |-> 1]
       ELSE IF shorter > 0 THEN [num |-> overlap_end - overlap_start, den |-> shorter]
       ELSE [num |-> 0, den |-> 1]

\* overlap_ratio > overlap_threshold
exceeds_overlap_threshold(overlap_ratio, overlap_threshold) ==
    100 * overlap_ratio.num > overlap_threshold * overlap_ratio.den

\* for selected in filtered: ... has_overlap
has_overlap(segment, filtered, overlap_threshold) ==
    \E k \in DOMAIN filtered :
        exceeds_overlap_threshold(segment_overlap(segment, filtered[k]),
                                  overlap_threshold)

\* for segment in segments[1:], from place i on.
RECURSIVE filter_overlapping_loop(_, _, _, _)
filter_overlapping_loop(segments, i, filtered, overlap_threshold) ==
    IF i > Len(segments) THEN filtered
    ELSE filter_overlapping_loop(
             segments, i + 1,
             IF has_overlap(segments[i], filtered, overlap_threshold)
             THEN filtered ELSE Append(filtered, segments[i]),
             overlap_threshold)

filter_overlapping(segments, overlap_threshold) ==
    IF segments = <<>> THEN <<>>
    ELSE filter_overlapping_loop(segments, 2, <<segments[1]>>, overlap_threshold)

(***************************************************************************)
(* Inputs of the filter model: up to MaxFoSegments segments, sorted by     *)
(* score, highest first, with equal scores among them.                     *)
(***************************************************************************)
MaxFoSegments == 4

FoTimes == {<<0, 10>>, <<6, 16>>, <<7, 17>>, <<14, 24>>, <<2, 4>>, <<5, 5>>}

\* The combined score at place i of a list sorted by score.
FoScore(i) == 90 - 10 * (i \div 2)

FoThresholds == {30, 50}

FoInit ==
    /\ \E n \in 0..MaxFoSegments :
          \E q \in [1..n -> FoTimes] :
              fo_segments = [i \in 1..n |->
                                [id |-> i, start_time |-> q[i][1],
                                 end_time |-> q[i][2], combined |-> FoScore(i)]]
    /\ fo_threshold \in FoThresholds
    /\ fo_pc = "call"
    /\ fo_filtered = <<>>

FoIdle ==
    /\ fo_segments = <<>>
    /\ fo_threshold = 0
    /\ fo_pc = "idle"
    /\ fo_filtered = <<>>

\* The call of filter_overlapping.
FoFilterOverlapping ==
    /\ fo_pc = "call"
    /\ fo_filtered' = filter_overlapping(fo_segments, fo_threshold)
    /\ fo_pc' = "returned"
    /\ UNCHANGED <<fo_segments, fo_threshold>>

(***************************************************************************)
(* SentenceBoundaryDetector._has_sentence_ending                           *)
(*                                                                         *)
(* A text is a sequence of characters; "a" stands for any character that   *)
(* is neither punctuation, nor a quote, nor white space.                   *)
(***************************************************************************)
\* self.sentence_endings = {'.', '!', '?', '...'}
sentence_endings == {<<".">>, <<"!">>, <<"?">>, <<".", ".", ".">>}

Quotes == {"\"", "'"}

\* str.strip(chars): the characters of chars taken off both ends.
RECURSIVE lstrip(_, _)
lstrip(text, chars) ==
    IF text # <<>> /\ Head(text) \in chars THEN lstrip(Tail(text), chars) ELSE text

RECURSIVE rstrip(_, _)
rstrip(text, chars) ==
    IF text # <<>> /\ text[Len(text)] \in chars
    THEN rstrip(SubSeq(text, 1, Len(text) - 1), chars)
    ELSE text

strip(text, chars) == rstrip(lstrip(text, chars), chars)

\* str.endswith(suffix)
endswith(text, suffix) ==
    /\ Len(suffix) <= Len(text)
    /\ SubSeq(text, Len(text) - Len(suffix) + 1, Len(text)) = suffix

\* any(text[-2].endswith(ending.strip('.!?')) for ending in self.sentence_endings)
quoted_ending(before_quote) ==
    \E ending \in sentence_endings :
        endswith(before_quote, strip(ending, {".", "!", "?"}))

has_sentence_ending(raw) ==
    LET text == strip(raw, {" "})
    IN IF text = <<>> THEN FALSE
       ELSE IF \E ending \in sentence_endings : endswith(text, ending) THEN TRUE
       ELSE IF text[Len(text)] \in Quotes
       THEN IF Len(text) > 1 THEN quoted_ending(<<text[Len(text) - 1]>>) ELSE FALSE
       ELSE FALSE

(***************************************************************************)
(* Inputs: every text of up to MaxTextLen characters.                      *)
(***************************************************************************)
MaxTextLen == 3

Characters == {"a", " ", ".", "!", "?", "\"", "'"}

HeInit ==
    /\ \E n \in 0..MaxTextLen : he_text \in [1..n -> Characters]
    /\ he_pc = "call"
    /\ he_ret = FALSE
    /\ he_boundaries = <<>>

HeIdle ==
    /\ he_text = <<>>
    /\ he_pc = "idle"
    /\ he_ret = FALSE
    /\ he_boundaries = <<>>

\* _has_sentence_ending on the text, and find_sentence_boundaries on a
\* transcript made of one segment with that text.
HeHasSentenceEnding ==
    /\ he_pc = "call"
    /\ he_ret' = has_sentence_ending(he_text)
    /\ he_boundaries' =
          find_sentence_boundaries(
              <<[start |-> 0, end |-> 1,
                 has_sentence_ending |-> has_sentence_ending(he_text),
                 starts_with_transition |-> FALSE]>>)
    /\ he_pc' = "returned"
    /\ UNCHANGED he_text

(***************************************************************************)
(* _validate_refinement_bounds called on its own                           *)
(***************************************************************************)
\* The Layer 2 bounds of the call: those of validate_refinements.py and a
\* thought that starts at 0.
VbOriginals == {<<100, 200>>, <<0, 10>>}

VbInit ==
    /\ \E o \in VbOriginals :
          /\ vb_original_start = o[1]
          /\ vb_original_end = o[2]
          /\ \E ds, de \in Shifts :
                /\ vb_refined_start = o[1] + ds
                /\ vb_refined_end = o[2] + de
    /\ vb_pc = "call"
    /\ vb_ret = FALSE

VbIdle ==
    /\ vb_original_start = 0
    /\ vb_original_end = 0
    /\ vb_refined_start = 0
    /\ vb_refined_end = 0
    /\ vb_pc = "idle"
    /\ vb_ret = FALSE

\* The call of _validate_refinement_bounds.
VbValidateRefinementBounds ==
    /\ vb_pc = "call"
    /\ vb_ret' = validate_refinement_bounds(vb_original_start, vb_original_end,
                                            vb_refined_start, vb_refined_end)
    /\ vb_pc' = "returned"
    /\ UNCHANGED <<vb_original_start, vb_original_end, vb_refined_start, vb_refined_end>>

(***************************************************************************)
(* Specifications                                                          *)
(***************************************************************************)
(***************************************************************************)
(* The metrics of Layer 2 under the thread pool of analyze_all.  Each pool *)
(* thread runs _analyze_single; after a response it adds to                *)
(* self.metrics['api_calls'] and self.metrics['tokens_used'] with +=, which *)
(* reads the entry, adds, and stores the sum back: two steps another thread *)
(* may come between, since nothing guards self.metrics.                    *)
(***************************************************************************)
MaxMtMoments == 2

\* response.usage.total_tokens of a response.
TokenCounts == {1, 2}

MetricKeys == <<"api_calls", "tokens_used">>

MtNewTask == [st |-> "new", attempt |-> 0, tokens |-> 0, key |-> 0, loaded |-> 0]

MtInit ==
    /\ mt_moments \in 2..MaxMtMoments
    /\ mt_max_workers \in {0, 1, 2}
    /\ mt_pc = "submit"
    /\ mt_idx = 0
    /\ mt_task = [i \in 1..mt_moments |-> MtNewTask]
    /\ mt_metrics = [api_calls |-> 0, tokens_used |-> 0]
    /\ mt_received = [responses |-> 0, tokens |-> 0]

MtIdle ==
    /\ mt_moments = 0
    /\ mt_max_workers = 0
    /\ mt_pc = "idle"
    /\ mt_idx = 0
    /\ mt_task = <<>>
    /\ mt_metrics = [api_calls |-> 0, tokens_used |-> 0]
    /\ mt_received = [responses |-> 0, tokens |-> 0]

MtRunning == {i \in DOMAIN mt_task : mt_task[i].st \in {"request", "load", "store"}}

MtQueued == {i \in DOMAIN mt_task : mt_task[i].st = "queued"}

\* The main thread submits the next task to the executor.
MtSubmit ==
    /\ mt_pc = "submit"
    /\ mt_idx' = mt_idx + 1
    /\ mt_task' = [mt_task EXCEPT ![mt_idx + 1].st = "queued"]
    /\ mt_pc' = IF mt_idx + 1 = mt_moments THEN "collect" ELSE "submit"
    /\ UNCHANGED <<mt_moments, mt_max_workers, mt_metrics, mt_received>>

\* A pool thread takes the oldest queued task and enters _analyze_single.
MtWorkerStart ==
    /\ MtQueued # {}
    /\ Cardinality(MtRunning) < pool_workers(mt_max_workers)
    /\ LET i == CHOOSE q \in MtQueued : \A r \in MtQueued : q <= r
       IN mt_task' = [mt_task EXCEPT ![i].st = "request"]
    /\ UNCHANGED <<mt_moments, mt_max_workers, mt_pc, mt_idx, mt_metrics, mt_received>>

\* client.chat.completions.create of one attempt: a response comes back, or
\* the call raises a rate-limit error (retried while attempts are left) or
\* another error (the task ends).
MtRequest(i) ==
    /\ i \in DOMAIN mt_task
    /\ mt_task[i].st = "request"
    /\ \/ \E total_tokens \in TokenCounts :
             /\ mt_task' = [mt_task EXCEPT ![i].st = "load", ![i].tokens = total_tokens,
                                           ![i].key = 1]
             /\ mt_received' = [responses |-> mt_received.responses + 1,
                                tokens |-> mt_received.tokens + total_tokens]
       \/ /\ mt_task' = [mt_task EXCEPT ![i] =
                            IF mt_task[i].attempt < MAX_RETRIES - 1
                            THEN [@ EXCEPT !.attempt = @ + 1]
                            ELSE [@ EXCEPT !.st = "done"]]
          /\ UNCHANGED mt_received
       \/ /\ mt_task' = [mt_task EXCEPT ![i].st = "done"]
          /\ UNCHANGED mt_received
    /\ UNCHANGED <<mt_moments, mt_max_workers, mt_pc, mt_idx, mt_metrics>>

\* The first half of self.metrics[key] += ...: the entry is read.
MtLoad(i) ==
    /\ i \in DOMAIN mt_task
    /\ mt_task[i].st = "load"
    /\ mt_task' = [mt_task EXCEPT ![i].st = "store",
                                  ![i].loaded = mt_metrics[MetricKeys[mt_task[i].key]]]
    /\ UNCHANGED <<mt_moments, mt_max_workers, mt_pc, mt_idx, mt_metrics, mt_received>>

\* What a pool thread adds to the entry it has read.
metric_increment(key, total_tokens) == IF key = "api_calls" THEN 1 ELSE total_tokens

\* The second half: the sum is stored; after api_calls comes tokens_used,
\* after tokens_used the rest of _analyze_single, which returns.
MtStore(i) ==
    /\ i \in DOMAIN mt_task
    /\ mt_task[i].st = "store"
    /\ LET key == MetricKeys[mt_task[i].key]
       IN mt_metrics' = [mt_metrics EXCEPT
                            ![key] = mt_task[i].loaded
                                        + metric_increment(key, mt_task[i].tokens)]
    /\ mt_task' = [mt_task EXCEPT
                      ![i].st = IF mt_task[i].key < Len(MetricKeys) THEN "load" ELSE "done",
                      ![i].key = IF mt_task[i].key < Len(MetricKeys) THEN @ + 1 ELSE @]
    /\ UNCHANGED <<mt_moments, mt_max_workers, mt_pc, mt_idx, mt_received>>

\* Every future has completed: analyze_all leaves the executor and returns.
MtReturn ==
    /\ mt_pc = "collect"
    /\ \A i \in DOMAIN mt_task : mt_task[i].st = "done"
    /\ mt_pc' = "returned"
    /\ UNCHANGED <<mt_moments, mt_max_workers, mt_idx, mt_task, mt_metrics, mt_received>>

(***************************************************************************)
(* analyze_all against a service whose outcome is fixed per candidate.     *)
(***************************************************************************)
MaxEqMoments == 3

EqMomentLists == {[i \in 1..n |-> L2Moment(i, v)] : n \in 1..MaxEqMoments, v \in 0..1}

\* The outcomes a candidate may be fixed to: those of L2Responses, the
\* unparsable answer standing for both failures of the parse (JSONDecodeError
\* and KeyError end in the same except clause).
EqOutcomes(moment) == L2Responses(moment) \ {[kind |-> "parse_error"]}

EqInit ==
    /\ L2Init(EqMomentLists, L2Modes)
    /\ LET candidates == {l2_moments[i] : i \in DOMAIN l2_moments}
       IN eq_outcome \in {f \in [candidates -> UNION {EqOutcomes(m) : m \in candidates}] :
                             \A m \in candidates : f[m] \in EqOutcomes(m)}

\* What the service answers to a request about each candidate.
EqResponses == [m \in DOMAIN eq_outcome |-> {eq_outcome[m]}]

\* _analyze_single from its attempt-th attempt on, every attempt with the
\* same outcome.
RECURSIVE analyze_single(_, _, _, _)
analyze_single(moment, moment_id, attempt, outcome) ==
    LET r == analyze_single_attempt(moment, moment_id, attempt, outcome)
    IN IF r.done THEN r.result
       ELSE analyze_single(moment, moment_id, r.attempt, outcome)

\* The sequential loop of analyze_all over the first n moments.
RECURSIVE analyze_all_sequential(_, _, _)
analyze_all_sequential(moments, n, outcome) ==
    IF n = 0 THEN <<>>
    ELSE LET thoughts == analyze_all_sequential(moments, n - 1, outcome)
             thought == analyze_single(moments[n], n, 0, outcome[moments[n]])
         IN IF thought # NoneThought THEN Append(thoughts, thought) ELSE thoughts

EqIdle == eq_outcome = <<>>

LaterIdle == BdIdle /\ FoIdle /\ VbIdle /\ HeIdle /\ MtIdle /\ EqIdle

OtherIdle == CkIdle /\ MgIdle /\ RtIdle /\ AlIdle /\ LaterIdle

L3Idle == L3Init({<<>>}, {0}, {0})

\* Layer 3 alone: refine_all on one thought.
InitL3 ==
    L3Init(L3SingleThought, MinDurations, MaxDurations) /\ L2Idle /\ AdIdle
        /\ L1Idle /\ OtherIdle

L3Validate ==
    /\ ValidateRound([t \in L3ThoughtPool |-> L3Responses(t)])
    /\ UNCHANGED <<l2vars, advars, l1vars, othervars>>

NextL3 == L3Validate

SpecL3 == InitL3 /\ [][NextL3]_vars

\* Layer 2 alone: analyze_all on up to MaxMoments moments.
InitL2 == L2Init(L2MomentLists, L2Modes) /\ L3Idle /\ AdIdle /\ L1Idle /\ OtherIdle

NextL2 ==
    \/ L2Submit /\ UNCHANGED <<l3vars, advars, l1vars, othervars>>
    \/ L2WorkerStart /\ UNCHANGED <<l3vars, advars, l1vars, othervars>>
    \/ \E i \in 1..MaxMoments :
          L2WorkerAttempt(i, [m \in L2MomentPool |-> L2Responses(m)])
              /\ UNCHANGED <<l3vars, advars, l1vars, othervars>>
    \/ \E i \in 1..MaxMoments :
          L2Collect(i) /\ UNCHANGED <<l3vars, advars, l1vars, othervars>>
    \/ L2SeqAttempt([m \in L2MomentPool |-> L2Responses(m)])
          /\ UNCHANGED <<l3vars, advars, l1vars, othervars>>
    \/ L2Finish /\ UNCHANGED <<l3vars, advars, l1vars, othervars>>

SpecL2 == InitL2 /\ [][NextL2]_vars

\* The adapter from Layer 3 on: refine_all, the PASS filter, package_all and the
\* final selection.
InitAdapter ==
    L3Init(AdThoughtLists, {0}, {0}) /\ L2Idle /\ AdInit(TargetClips)
        /\ L1Idle /\ OtherIdle

AdValidate ==
    /\ ad_pc = "layer3"
    /\ ValidateRound([t \in AdThoughtPool |-> AdL3Responses(t)])
    /\ UNCHANGED <<l2vars, advars, l1vars, othervars>>

NextAdapter ==
    \/ AdValidate
    \/ AdFilter /\ UNCHANGED <<l3vars, l2vars, l1vars, othervars>>
    \/ AdPackage /\ UNCHANGED <<l3vars, l2vars, l1vars, othervars>>

SpecAdapter == InitAdapter /\ [][NextAdapter]_vars

\* The chunker alone: one call of _chunk_segments.
InitChunk ==
    CkInit /\ L3Idle /\ L2Idle /\ AdIdle /\ MgIdle /\ L1Idle /\ RtIdle /\ AlIdle
        /\ LaterIdle

NextChunk ==
    CkChunkSegments
        /\ UNCHANGED <<l3vars, l2vars, advars, mgvars, l1vars, rtvars, alvars, latervars>>

SpecChunk == InitChunk /\ [][NextChunk]_vars

\* The merge alone: one call of _merge_chunk_results.
InitMerge ==
    MgInit /\ L3Idle /\ L2Idle /\ AdIdle /\ CkIdle /\ L1Idle /\ RtIdle /\ AlIdle
        /\ LaterIdle

NextMerge ==
    MgMergeChunkResults
        /\ UNCHANGED <<l3vars, l2vars, advars, ckvars, l1vars, rtvars, alvars, latervars>>

SpecMerge == InitMerge /\ [][NextMerge]_vars

\* Layer 1 alone: one call of detect.
InitL1 ==
    L1Init(L1SegmentLists, L1Targets)
        /\ L3Idle /\ L2Idle /\ AdIdle /\ CkIdle /\ MgIdle /\ RtIdle /\ AlIdle
        /\ LaterIdle

L1Detect ==
    L1Attempt(L1Responses)
        /\ UNCHANGED <<l3vars, l2vars, advars, ckvars, mgvars, rtvars, alvars, latervars>>

L1Sleep ==
    L1Wait
        /\ UNCHANGED <<l3vars, l2vars, advars, ckvars, mgvars, rtvars, alvars, latervars>>

NextL1 == L1Detect \/ L1Sleep

SpecL1 == InitL1 /\ [][NextL1]_vars

\* detect with the answers that matter to the order of its requests: no
\* candidate or one, an unparsable answer, a rate limit, another error.
L1ChunkResponses ==
    {[kind |-> "ok", candidates |-> q] : q \in {<<>>, <<Moment(0, 10, 90)>>}}
    \cup {[kind |-> "parse_error"], RateLimitError, ApiError}

L1DetectChunk ==
    L1Attempt(L1ChunkResponses)
        /\ UNCHANGED <<l3vars, l2vars, advars, ckvars, mgvars, rtvars, alvars, latervars>>

NextL1Chunks == L1DetectChunk \/ L1Sleep

SpecL1Chunks == InitL1 /\ [][NextL1Chunks]_vars

\* One unit of work of one layer: the retry loop around its request.
InitRetry ==
    RtInit /\ L3Idle /\ L2Idle /\ AdIdle /\ CkIdle /\ MgIdle /\ L1Idle /\ AlIdle
        /\ LaterIdle

NextRetry ==
    RtCall /\ UNCHANGED <<l3vars, l2vars, advars, ckvars, mgvars, l1vars, alvars, latervars>>

SpecRetry == InitRetry /\ [][NextRetry]_vars

\* The aligner alone: one call of align_clip_to_boundaries.
InitAlign ==
    AlInit /\ L3Idle /\ L2Idle /\ AdIdle /\ CkIdle /\ MgIdle /\ L1Idle /\ RtIdle
        /\ LaterIdle

NextAlign ==
    \/ AlAlign /\ UNCHANGED <<l3vars, l2vars, advars, ckvars, mgvars, l1vars, rtvars, latervars>>
    \/ AlRealign /\ UNCHANGED <<l3vars, l2vars, advars, ckvars, mgvars, l1vars, rtvars, latervars>>

SpecAlign == InitAlign /\ [][NextAlign]_vars

\* The boundary detector alone: one call of find_sentence_boundaries.
InitBoundaries ==
    BdInit /\ FoIdle /\ VbIdle /\ HeIdle /\ MtIdle /\ EqIdle /\ L3Idle /\ L2Idle /\ AdIdle /\ L1Idle
        /\ CkIdle /\ MgIdle /\ RtIdle /\ AlIdle

NextBoundaries ==
    BdFindSentenceBoundaries
        /\ UNCHANGED <<l3vars, l2vars, advars, l1vars, ckvars, mgvars, rtvars, alvars,
                       fovars, vbvars, hevars, mtvars, eqvars>>

SpecBoundaries == InitBoundaries /\ [][NextBoundaries]_vars

\* The overlap filter alone: one call of filter_overlapping.
InitFilter ==
    FoInit /\ BdIdle /\ VbIdle /\ HeIdle /\ MtIdle /\ EqIdle /\ L3Idle /\ L2Idle /\ AdIdle /\ L1Idle
        /\ CkIdle /\ MgIdle /\ RtIdle /\ AlIdle

NextFilter ==
    FoFilterOverlapping
        /\ UNCHANGED <<l3vars, l2vars, advars, l1vars, ckvars, mgvars, rtvars, alvars,
                       bdvars, vbvars, hevars, mtvars, eqvars>>

SpecFilter == InitFilter /\ [][NextFilter]_vars

\* The bounds test alone: one call of _validate_refinement_bounds.
InitBounds ==
    VbInit /\ BdIdle /\ FoIdle /\ HeIdle /\ MtIdle /\ EqIdle /\ L3Idle /\ L2Idle /\ AdIdle /\ L1Idle
        /\ CkIdle /\ MgIdle /\ RtIdle /\ AlIdle

NextBounds ==
    VbValidateRefinementBounds
        /\ UNCHANGED <<l3vars, l2vars, advars, l1vars, ckvars, mgvars, rtvars, alvars,
                       bdvars, fovars, hevars, mtvars, eqvars>>

SpecBounds == InitBounds /\ [][NextBounds]_vars

\* The sentence-ending test alone: one call of _has_sentence_ending.
InitEnding ==
    HeInit /\ BdIdle /\ FoIdle /\ VbIdle /\ MtIdle /\ EqIdle /\ L3Idle /\ L2Idle /\ AdIdle /\ L1Idle
        /\ CkIdle /\ MgIdle /\ RtIdle /\ AlIdle

NextEnding ==
    HeHasSentenceEnding
        /\ UNCHANGED <<l3vars, l2vars, advars, l1vars, ckvars, mgvars, rtvars, alvars,
                       bdvars, fovars, vbvars, mtvars, eqvars>>

SpecEnding == InitEnding /\ [][NextEnding]_vars

\* The metrics of a parallel analyze_all: the pool threads step by step.
InitMetrics ==
    MtInit /\ BdIdle /\ FoIdle /\ VbIdle /\ HeIdle /\ EqIdle /\ L3Idle /\ L2Idle
        /\ AdIdle /\ L1Idle /\ CkIdle /\ MgIdle /\ RtIdle /\ AlIdle

MtStep(i) == MtRequest(i) \/ MtLoad(i) \/ MtStore(i)

NextMetrics ==
    \/ MtSubmit
          /\ UNCHANGED <<l3vars, l2vars, advars, l1vars, ckvars, mgvars, rtvars, alvars,
                         bdvars, fovars, vbvars, hevars, eqvars>>
    \/ MtWorkerStart
          /\ UNCHANGED <<l3vars, l2vars, advars, l1vars, ckvars, mgvars, rtvars, alvars,
                         bdvars, fovars, vbvars, hevars, eqvars>>
    \/ \E i \in 1..MaxMtMoments :
          MtStep(i)
              /\ UNCHANGED <<l3vars, l2vars, advars, l1vars, ckvars, mgvars, rtvars,
                             alvars, bdvars, fovars, vbvars, hevars, eqvars>>
    \/ MtReturn
          /\ UNCHANGED <<l3vars, l2vars, advars, l1vars, ckvars, mgvars, rtvars, alvars,
                         bdvars, fovars, vbvars, hevars, eqvars>>

SpecMetrics == InitMetrics /\ [][NextMetrics]_vars

\* analyze_all, parallel or not, against the fixed outcomes.
InitEquiv ==
    EqInit /\ BdIdle /\ FoIdle /\ VbIdle /\ HeIdle /\ MtIdle /\ L3Idle /\ AdIdle
        /\ L1Idle /\ CkIdle /\ MgIdle /\ RtIdle /\ AlIdle

EqAnalyze(i) ==
    \/ L2Submit
    \/ L2WorkerStart
    \/ L2WorkerAttempt(i, EqResponses)
    \/ L2Collect(i)
    \/ L2SeqAttempt(EqResponses)
    \/ L2Finish

NextEquiv ==
    \E i \in 1..MaxEqMoments :
        EqAnalyze(i) /\ UNCHANGED <<l3vars, advars, l1vars, othervars>>

SpecEquiv == InitEquiv /\ [][NextEquiv]_vars

\* analyze_transcript as a whole: the four layers one after the other.
InitPipeline ==
    PlInit /\ L2Idle /\ L3Idle /\ CkIdle /\ MgIdle /\ RtIdle /\ AlIdle
        /\ LaterIdle

PlAnalyze(i) ==
    \/ L2Submit
    \/ L2WorkerStart
    \/ L2WorkerAttempt(i, [m \in PlPool |-> PlL2Responses(m)])
    \/ L2Collect(i)
    \/ L2SeqAttempt([m \in PlPool |-> PlL2Responses(m)])
    \/ L2Finish

PlValidate ==
    /\ ad_pc = "layer3"
    /\ ValidateRound([t \in PlThoughtPool |-> PlL3Responses(t)])

NextPipeline ==
    \/ PlDetect /\ UNCHANGED <<l3vars, l2vars, advars, othervars>>
    \/ PlSleep /\ UNCHANGED <<l3vars, l2vars, advars, othervars>>
    \/ PlAfterDetect /\ UNCHANGED <<l3vars, l1vars, othervars>>
    \/ \E i \in DOMAIN l2_moments :
          ad_pc = "layer2" /\ PlAnalyze(i)
              /\ UNCHANGED <<l3vars, advars, l1vars, othervars>>
    \/ PlAfterAnalyze /\ UNCHANGED <<l2vars, l1vars, othervars>>
    \/ PlValidate /\ UNCHANGED <<l2vars, advars, l1vars, othervars>>
    \/ AdFilter /\ UNCHANGED <<l3vars, l2vars, l1vars, othervars>>
    \/ AdPackage /\ UNCHANGED <<l3vars, l2vars, l1vars, othervars>>

SpecPipeline == InitPipeline /\ [][NextPipeline]_vars

(***************************************************************************)
(* Layer 2 properties                                                      *)
(***************************************************************************)
UsesPool == l2_pc \in {"submit", "collect", "returned", "raised"}
               /\ l2_parallel /\ Len(l2_moments) > 1

\* The moments whose request the service answered with a complete object.
Succeeded == {i \in DOMAIN l2_task :
                 l2_task[i].st = "done" /\ l2_task[i].result # NoneThought}

\* C7: every ThoughtBoundary analyze_all collects contains its rough moment
\* and expands it by at most 30 s on each side.
C7_ExpansionWithinLimits ==
    \A k \in DOMAIN l2_thoughts :
        LET t == l2_thoughts[k]
            m == t.original_moment
        IN /\ t.expanded_start <= m.rough_start
           /\ t.expanded_end >= m.rough_end
           /\ m.rough_start - t.expanded_start <= 30
           /\ t.expanded_end - m.rough_end <= 30

\* C8: analyze_all never raises, and what it returns holds exactly the
\* candidates whose request succeeded.
C8_NeverRaises ==
    /\ l2_pc # "raised"
    /\ l2_pc = "returned" =>
          {l2_thoughts[k].original_moment : k \in DOMAIN l2_thoughts}
              = {l2_moments[i] : i \in Succeeded}

\* C9: with the pool in use, at most max_workers (5 when not given)
\* _analyze_single calls are under way at any time.
C9_InFlightBounded ==
    UsesPool =>
        Cardinality(Running) <= (IF l2_max_workers = 0 THEN 5 ELSE l2_max_workers)

\* C9 witness: the pool is full while another task waits in its queue.
C9_Witness ==
    /\ UsesPool
    /\ l2_max_workers = 2
    /\ Cardinality(Running) = 2
    /\ Queued # {}

\* C10: with the pool in use, every collected ThoughtBoundary carries the
\* moment of the request that produced it and the id of that moment's 1-based
\* position; ids are not shared and no moment yields two ThoughtBoundaries.
C10_BackReference ==
    UsesPool =>
        /\ \A k \in DOMAIN l2_thoughts :
              \E i \in DOMAIN l2_moments :
                 /\ l2_task[i].st = "done"
                 /\ l2_thoughts[k] = l2_task[i].result
                 /\ l2_thoughts[k].original_moment = l2_moments[i]
                 /\ l2_thoughts[k].moment_id
                       = [prefix |-> "moment_", digits |-> <<0, 0, i>>]
        /\ \A k1, k2 \in DOMAIN l2_thoughts :
              k1 # k2 =>
                 /\ l2_thoughts[k1].moment_id # l2_thoughts[k2].moment_id
                 /\ l2_thoughts[k1].original_moment # l2_thoughts[k2].original_moment

\* C10 witness: two thoughts were collected against the order of submission.
C10_Witness ==
    /\ UsesPool
    /\ l2_pc = "returned"
    /\ Len(l2_thoughts) = 2
    /\ l2_thoughts[1].moment_id.digits = <<0, 0, 3>>
    /\ l2_thoughts[2].moment_id.digits = <<0, 0, 1>>

(***************************************************************************)
(* Adapter properties                                                      *)
(***************************************************************************)
\* The Stage 3 record of a thought, if refine_all kept one.
HasRecord(thought, verdict) ==
    \E k \in DOMAIN validated_clips :
        /\ validated_clips[k].complete_thought = thought
        /\ validated_clips[k].verdict = verdict

AdCombined(c) == 60 * c.interest_score + 40 * c.metadata.standalone_score

\* The packaged clip a returned clip was made from.
AdFrom(c, p) ==
    /\ p.start_time = c.start_time
    /\ p.end_time = c.end_time
    /\ p.interest_score = c.interest_score
    /\ p.standalone_score = c.metadata.standalone_score
    /\ p.layer1 = c.metadata.layer1

AdLeftOut(p) == \A k \in DOMAIN legacy_clips : ~AdFrom(legacy_clips[k], p)

\* C28: analyze_transcript returns at most target_clips clips, each made from
\* a packaged clip, in the order of non-increasing combined score; no
\* packaged clip left out scores strictly higher than one returned; the ids
\* are clip_001, clip_002, ... in the order returned.
C28_TopByCombinedScore ==
    ad_pc = "returned" =>
        /\ Len(legacy_clips) <= target_clips
        /\ Len(legacy_clips) = Min(target_clips, Len(packaged_clips))
        /\ \A k \in DOMAIN legacy_clips :
              /\ \E j \in DOMAIN packaged_clips : AdFrom(legacy_clips[k], packaged_clips[j])
              /\ legacy_clips[k].id = [prefix |-> "clip_", digits |-> <<0, 0, k>>]
        /\ \A k, l \in DOMAIN legacy_clips :
              k < l => AdCombined(legacy_clips[k]) >= AdCombined(legacy_clips[l])
        /\ \A j \in DOMAIN packaged_clips :
              AdLeftOut(packaged_clips[j]) =>
                 \A k \in DOMAIN legacy_clips :
                     60 * packaged_clips[j].interest_score
                         + 40 * packaged_clips[j].standalone_score
                       <= AdCombined(legacy_clips[k])

\* C28 witness: two clips were packaged and the one packaged second scores
\* strictly higher; it alone is returned, as clip_001.
C28_Witness ==
    /\ ad_pc = "returned"
    /\ target_clips = 1
    /\ Len(packaged_clips) = 2
    /\ Len(legacy_clips) = 1
    /\ AdFrom(legacy_clips[1], packaged_clips[2])
    /\ AdCombined(legacy_clips[1])
          > 60 * packaged_clips[1].interest_score + 40 * packaged_clips[1].standalone_score

\* C29: every clip package_all produces has a title of at most 60
\* characters, at most five hashtags, the first of those the service gave,
\* and a thumbnail_time from start_time to end_time.
C29_WellFormedPackaging ==
    \A k \in DOMAIN packaged_clips :
        LET p == packaged_clips[k] IN
        /\ p.title.len <= 60
        /\ Len(p.hashtags) <= 5
        /\ \A j \in DOMAIN p.hashtags : p.hashtags[j] = j
        /\ p.start_time <= p.thumbnail_time
        /\ p.thumbnail_time <= p.end_time

\* C30: _validate_refinement_bounds returns True exactly when the start and
\* the end each lie at most 15 s from the Layer 2 bound, in either direction;
\* 15 s exactly is accepted.
C30_TrueIffBothWithinFifteen ==
    vb_pc = "returned" =>
        (vb_ret = TRUE <=>
            /\ vb_original_start - vb_refined_start <= 15
            /\ vb_refined_start - vb_original_start <= 15
            /\ vb_original_end - vb_refined_end <= 15
            /\ vb_refined_end - vb_original_end <= 15)

\* C30 witness: the start 15 s earlier and the end 15 s later are accepted.
C30_Witness ==
    /\ vb_pc = "returned"
    /\ vb_ret = TRUE
    /\ vb_refined_start = vb_original_start - 15
    /\ vb_refined_end = vb_original_end + 15

(***************************************************************************)
(* Layer 3 properties                                                      *)
(***************************************************************************)
L3Returned == l3_ret.verdict \in {"PASS", "REVISE", "REJECT"}

LastJudgment == judgments[Len(judgments)]

\* The thought the judgments on record were made for.
JudgedThought == IF l3_ret.verdict = "Running" THEN l3_thoughts[l3_idx]
                 ELSE l3_thoughts[l3_idx - 1]

ExceedsCap(j, thought) ==
    \/ Abs(j.refined_start - thought.expanded_start) > 15
    \/ Abs(j.refined_end - thought.expanded_end) > 15

ViolatesDuration(j) ==
    \/ min_duration # 0 /\ j.refined_end - j.refined_start < min_duration
    \/ max_duration # 0 /\ j.refined_end - j.refined_start > max_duration

\* C1: every clip returned with verdict PASS or REVISE has both refined bounds
\* within 15 s of the bounds of its ThoughtBoundary, and a judgment proposing
\* bounds beyond that is answered with REJECT.
C1_RefinedWithinCap ==
    L3Returned =>
        /\ l3_ret.verdict \in {"PASS", "REVISE"} =>
              /\ Abs(l3_ret.refined_start - l3_ret.complete_thought.expanded_start) <= 15
              /\ Abs(l3_ret.refined_end - l3_ret.complete_thought.expanded_end) <= 15
        /\ (LastJudgment.ok /\ ExceedsCap(LastJudgment, l3_ret.complete_thought)) =>
              l3_ret.verdict = "REJECT"

\* C2: in any round, a judgment scored in [0.4, 0.7) whose refined bounds are
\* more than 15 s from the expanded bounds ends the call with REJECT (reason:
\* the reported one, else structural_issue; duration_constraint when the
\* duration test rejected first), never REVISE or PASS.
C2_ReviseBeyondCapRejects ==
    \A i \in 1..Len(judgments) :
        LET j == judgments[i] IN
        (j.ok /\ j.standalone_score >= 40 /\ j.standalone_score < 70
              /\ ExceedsCap(j, JudgedThought)) =>
            /\ i = Len(judgments)
            /\ l3_ret.verdict = "REJECT"
            /\ ~ViolatesDuration(j) =>
                  l3_ret.rejection_reason = IF j.rejection_reason # "None"
                                            THEN j.rejection_reason
                                            ELSE "structural_issue"

C4_DurationRejects ==
    \A i \in 1..Len(judgments) :
        LET j == judgments[i] IN
        (j.ok /\ ViolatesDuration(j)) =>
            /\ i = Len(judgments)
            /\ l3_ret.verdict = "REJECT"
            /\ l3_ret.rejection_reason = "duration_constraint"

\* C4 witness: a round scored >= 0.7 was rejected for exceeding max_duration.
C4_Witness ==
    /\ L3Returned
    /\ LastJudgment.ok /\ LastJudgment.standalone_score >= 70
    /\ max_duration # 0
    /\ LastJudgment.refined_end - LastJudgment.refined_start > max_duration
    /\ l3_ret.rejection_reason = "duration_constraint"

\* C5: at most two judgment rounds per thought, and a second one only after a
\* first round scored in [0.4, 0.7) with refined bounds within the 15 s cap.
C5_AtMostTwoRounds ==
    /\ Len(judgments) <= 2
    /\ Len(judgments) = 2 =>
          LET j == judgments[1] IN
          /\ j.ok
          /\ j.standalone_score >= 40 /\ j.standalone_score < 70
          /\ ~ExceedsCap(j, JudgedThought)

\* C5 witness: the second round ran and settled as REVISE.
C5_Witness ==
    /\ Len(judgments) = 2
    /\ l3_ret.verdict = "REVISE"

(***************************************************************************)
(* Layer 1 properties                                                      *)
(***************************************************************************)
\* overlap_duration / min(duration_a, duration_b) > DEDUP_THRESHOLD
OverlapRatioAboveThreshold(a, b) ==
    LET overlap_duration == Min(a.rough_end, b.rough_end)
                                - Max(a.rough_start, b.rough_start)
        shorter == Min(a.rough_end - a.rough_start, b.rough_end - b.rough_start)
    IN overlap_duration > 0 /\ shorter > 0
        /\ 100 * overlap_duration > DEDUP_THRESHOLD * shorter

\* C11: every two distinct candidates of the list _merge_chunk_results
\* returns overlap by at most DEDUP_THRESHOLD of the shorter one.
C11_DedupedPairsWithinThreshold ==
    mg_pc = "returned" =>
        \A i, j \in DOMAIN mg_deduped :
            i # j => ~OverlapRatioAboveThreshold(mg_deduped[i], mg_deduped[j])

\* C11 witness: the merge dropped a duplicate and kept two candidates that
\* overlap, by no more than the threshold.
C11_Witness ==
    /\ mg_pc = "returned"
    /\ Len(mg_deduped) >= 2
    /\ Len(mg_deduped) < Len(all_moments_of(mg_chunk_results))
    /\ \E i, j \in DOMAIN mg_deduped :
          /\ i # j
          /\ Min(mg_deduped[i].rough_end, mg_deduped[j].rough_end)
                > Max(mg_deduped[i].rough_start, mg_deduped[j].rough_start)

\* The candidates handed to _merge_chunk_results, chunk after chunk.
MgInput == all_moments_of(mg_chunk_results)

MgPresent(m) == \E k \in DOMAIN mg_deduped : mg_deduped[k] = m

\* C35: a candidate that overlaps no other input candidate by more than 0.5
\* is in the result.
C35_DistinctCandidateKept ==
    mg_pc = "returned" =>
        \A i \in DOMAIN MgInput :
            (\A j \in DOMAIN MgInput :
                 j # i => ~OverlapRatioAboveThreshold(MgInput[i], MgInput[j]))
               => MgPresent(MgInput[i])

\* C35 witness: two candidates that overlap by exactly half of the shorter
\* one are both kept, while a third candidate was dropped.
C35_Witness ==
    /\ mg_pc = "returned"
    /\ Len(mg_deduped) = 2
    /\ Len(MgInput) = 3
    /\ 2 * (Min(mg_deduped[1].rough_end, mg_deduped[2].rough_end)
               - Max(mg_deduped[1].rough_start, mg_deduped[2].rough_start))
          = Min(mg_deduped[1].rough_end - mg_deduped[1].rough_start,
                mg_deduped[2].rough_end - mg_deduped[2].rough_start)
    /\ mg_deduped[1].rough_end > mg_deduped[1].rough_start
    /\ mg_deduped[2].rough_end > mg_deduped[2].rough_start

\* C36: for every input candidate missing from the result there is a
\* candidate in the result, scored at least as high, that overlaps it by more
\* than 0.5.
C36_DroppedHasSurvivor ==
    mg_pc = "returned" =>
        \A i \in DOMAIN MgInput :
            ~MgPresent(MgInput[i]) =>
                \E k \in DOMAIN mg_deduped :
                    /\ mg_deduped[k].interest_score >= MgInput[i].interest_score
                    /\ OverlapRatioAboveThreshold(mg_deduped[k], MgInput[i])

\* The places in ck_segments of the first and the last segment of chunk n
\* (a segment of the chunker model has its place as start).
CkFirst(n) == ck_chunks[n][1].start

CkLast(n) == ck_chunks[n][Len(ck_chunks[n])].start

\* C37: for a non-empty input the chunks are non-empty runs of consecutive
\* input segments; the first starts with the first segment, the last ends
\* with the last one, and every later chunk starts right after the end of
\* the chunk before or inside it, and ends after it: no segment is left out.
C37_ChunksCoverInput ==
    (ck_pc = "returned" /\ ck_segments # <<>>) =>
        /\ ck_chunks # <<>>
        /\ \A n \in DOMAIN ck_chunks :
              /\ ck_chunks[n] # <<>>
              /\ \A k \in DOMAIN ck_chunks[n] :
                    /\ CkFirst(n) + k - 1 \in DOMAIN ck_segments
                    /\ ck_chunks[n][k] = ck_segments[CkFirst(n) + k - 1]
        /\ CkFirst(1) = 1
        /\ CkLast(Len(ck_chunks)) = Len(ck_segments)
        /\ \A n \in 2..Len(ck_chunks) :
              /\ CkFirst(n) > CkFirst(n - 1)
              /\ CkFirst(n) <= CkLast(n - 1) + 1
              /\ CkLast(n) > CkLast(n - 1)
        /\ \A i \in DOMAIN ck_segments :
              \E n \in DOMAIN ck_chunks : \E k \in DOMAIN ck_chunks[n] :
                  ck_chunks[n][k] = ck_segments[i]

\* C37 witness: one chunk starts with a segment carried over from the chunk
\* before it, another starts right after the chunk before it.
C37_Witness ==
    /\ ck_pc = "returned"
    /\ \E n \in 2..Len(ck_chunks) : CkFirst(n) <= CkLast(n - 1)
    /\ \E n \in 2..Len(ck_chunks) : CkFirst(n) = CkLast(n - 1) + 1

\* C12: the list detect returns is ordered by non-increasing interest_score
\* and has at most target_moments candidates.
C12_SortedAndCutToTarget ==
    l1_pc = "returned" =>
        /\ \A i, j \in DOMAIN l1_moments :
              i < j => l1_moments[i].interest_score >= l1_moments[j].interest_score
        /\ Len(l1_moments) <= l1_target

\* C13: detect never raises: a chunk whose service work fails counts for
\* zero candidates, and every chunk has its entry in chunk_results.
C13_ChunkFailureContained ==
    /\ l1_pc # "raised"
    /\ l1_pc = "returned" /\ l1_chunks # <<>> =>
          Len(l1_chunk_results) = Len(l1_chunks)

\* C31: in the chunked path every request for chunk i is issued when the
\* work for the i - 1 chunks before it has ended and i - 1 delays have been
\* taken, the k-th delay after chunk k; when detect returns, there were
\* len(chunks) - 1 delays and none after the last chunk.
C31_ChunksOneAtATime ==
    /\ \A r \in l1_request_log : r.ended = r.chunk - 1 /\ r.delays = r.chunk - 1
    /\ \A k \in DOMAIN l1_delays : l1_delays[k] = k /\ k < Len(l1_chunks)
    /\ l1_pc = "chunks" => Len(l1_chunk_results) = l1_i - 1 /\ Len(l1_delays) = l1_i - 1
    /\ l1_pc = "returned" /\ l1_chunks # <<>> =>
          /\ Len(l1_delays) = Len(l1_chunks) - 1
          /\ \A i \in DOMAIN l1_chunks : \E r \in l1_request_log : r.chunk = i

\* C31 witness: three chunks or more were processed, one of them with a
\* retry and one with a failure, and detect returned.
C31_Witness ==
    /\ l1_pc = "returned"
    /\ Len(l1_chunks) >= 3
    /\ l1_requests > Len(l1_chunks)
    /\ \E i \in DOMAIN l1_chunk_results : l1_chunk_results[i] = <<>>
    /\ Len(l1_delays) = Len(l1_chunks) - 1

\* The bounds the i-th judgment round of the call evaluated.
L3RoundBounds(i) ==
    IF i = 1 THEN [start |-> JudgedThought.expanded_start, end |-> JudgedThought.expanded_end]
    ELSE [start |-> judgments[i - 1].refined_start, end |-> judgments[i - 1].refined_end]

\* C32: every record _validate_and_refine returns, whatever its verdict,
\* carries a history with one entry per judgment round of the call, in round
\* order, holding the bounds that round evaluated and its score.
C32_HistoryPerRound ==
    L3Returned =>
        /\ "refinement_history" \in DOMAIN l3_ret
        /\ Len(l3_ret.refinement_history) = Len(judgments)
        /\ \A i \in DOMAIN l3_ret.refinement_history :
              /\ l3_ret.refinement_history[i].start = L3RoundBounds(i).start
              /\ l3_ret.refinement_history[i].end = L3RoundBounds(i).end
              /\ l3_ret.refinement_history[i].score = judgments[i].standalone_score

\* C33: when refine_all has returned, no_changes_needed counts the PASS
\* clips whose judgment reported changes_made = false, and
\* boundary_quality_rate is that count over passed + revised.
C33_NoChangesNeededCounted ==
    l3_pc = "done" =>
        /\ l3_metrics.no_changes_needed = l3_no_change_reports
        /\ l3_metrics.passed + l3_metrics.revised > 0 =>
              l3_metrics.boundary_quality_rate
                  = (100 * l3_no_change_reports)
                        \div (l3_metrics.passed + l3_metrics.revised)

\* A record keeps every configured duration bound.
WithinConfiguredDuration(clip) ==
    LET duration == clip.refined_end - clip.refined_start IN
    /\ min_duration # 0 => min_duration <= duration
    /\ max_duration # 0 => duration <= max_duration

\* C40: every record _validate_and_refine returns with verdict PASS or REVISE
\* has a duration refined_end - refined_start that is at least the configured
\* min_duration and at most the configured max_duration, after one round or
\* two and whatever the judgments were.
C40_AcceptedWithinDuration ==
    /\ l3_ret.verdict \in {"PASS", "REVISE"} => WithinConfiguredDuration(l3_ret)
    /\ \A k \in DOMAIN validated_clips :
          validated_clips[k].verdict \in {"PASS", "REVISE"} =>
              WithinConfiguredDuration(validated_clips[k])

\* C40 witness: with both bounds configured, a second round moved the bounds
\* and the record came back PASS or REVISE with the moved bounds.
C40_Witness ==
    /\ min_duration # 0 /\ max_duration # 0
    /\ Len(judgments) = 2
    /\ l3_ret.verdict \in {"PASS", "REVISE"}
    /\ l3_ret.refined_end - l3_ret.refined_start
          # l3_thoughts[1].expanded_end - l3_thoughts[1].expanded_start

\* C38: when a parallel analyze_all has returned, api_calls is the number of
\* responses the pool threads received and tokens_used the sum of their
\* token counts, however the threads were interleaved.
C38_NoMetricUpdateLost ==
    mt_pc = "returned" =>
        /\ mt_metrics.api_calls = mt_received.responses
        /\ mt_metrics.tokens_used = mt_received.tokens

\* With one pool thread the metrics are exact.
MtOneWorkerExact ==
    (mt_pc = "returned" /\ mt_max_workers = 1) =>
        /\ mt_metrics.api_calls = mt_received.responses
        /\ mt_metrics.tokens_used = mt_received.tokens

\* The metrics never exceed what was received.
MtNeverMore ==
    /\ mt_metrics.api_calls <= mt_received.responses
    /\ mt_metrics.tokens_used <= mt_received.tokens

\* What analyze_all would do with parallel=False on the same moments.
EqSequential == analyze_all_sequential(l2_moments, Len(l2_moments), eq_outcome)

EqSet(thoughts) == {thoughts[k] : k \in DOMAIN thoughts}

EqParallelBranch == l2_parallel /\ Len(l2_moments) > 1

\* Without the pool, analyze_all yields the sequential list itself.
EqSequentialExact ==
    (l2_pc \in {"returned", "raised"} /\ ~EqParallelBranch) =>
        l2_thoughts = EqSequential

\* C39: with the outcome fixed per candidate, a parallel analyze_all ends
\* with the same thoughts (moment_id, bounds, confidence, source moment) as
\* the sequential one would, each once, for every pool size and order of
\* completion, and raises exactly when the sequential one would.
C39_ParallelSameThoughts ==
    (l2_pc \in {"returned", "raised"} /\ EqParallelBranch) =>
        /\ EqSet(l2_thoughts) = EqSet(EqSequential)
        /\ Len(l2_thoughts) = Len(EqSequential)
        /\ (l2_pc = "raised") = analyze_all_metrics(EqSequential).raised

\* C39 witness: a parallel run returned two thoughts or more in an order
\* that is not the sequential one.
C39_Witness ==
    /\ l2_pc = "returned" /\ EqParallelBranch
    /\ Len(l2_thoughts) >= 2
    /\ l2_thoughts # EqSequential
    /\ eq_outcome # <<>>

\* The text as _has_sentence_ending looks at it.
HeStripped == strip(he_text, {" "})

HeEndsInQuote == HeStripped # <<>> /\ HeStripped[Len(HeStripped)] \in Quotes

HeTerminalBeforeQuote ==
    /\ Len(HeStripped) > 1
    /\ HeStripped[Len(HeStripped) - 1] \in {".", "!", "?"}

\* C34: for a text that ends in a quote, _has_sentence_ending is true only
\* when the character before the quote is '.', '!' or '?'; a segment that
\* ends in a quote with no such character before it gives no sentence_end
\* boundary.
C34_QuoteNeedsTerminalBefore ==
    (he_pc = "returned" /\ HeEndsInQuote /\ ~HeTerminalBeforeQuote) =>
        /\ he_ret = FALSE
        /\ \A k \in DOMAIN he_boundaries : he_boundaries[k].type # "sentence_end"

\* The equal-cost case of the chunker: every segment costs Tokens(1) and the
\* budget is UniformK segments' worth.
UniformCost == \A i \in DOMAIN ck_segments : ck_segments[i].tokens = Tokens(1)

UniformK == ck_max_tokens \div Tokens(1)

\* Chunk n begins with the last floor(0.10 * k) segments of chunk n - 1.
BeginsWithOverlap(n) ==
    LET before == ck_chunks[n - 1]
        carried == UniformK \div 10
    IN /\ Len(ck_chunks[n]) >= carried
       /\ Len(before) >= carried
       /\ SubSeq(ck_chunks[n], 1, carried)
             = SubSeq(before, Len(before) - carried + 1, Len(before))

\* C17: in every chunk the segments that were not carried over from the
\* chunk before cost at most max_tokens together.
C17_ChunkWithinBudget ==
    ck_pc = "returned" =>
        \A n \in DOMAIN ck_chunks :
            LET carried == IF n = 1 THEN 0
                           ELSE (Len(ck_chunks[n - 1]) * DEFAULT_OVERLAP_RATIO) \div 100
            IN chunk_tokens(SubSeq(ck_chunks[n], carried + 1, Len(ck_chunks[n])))
                  <= ck_max_tokens

\* C18 as stated: with equal costs every chunk has exactly k segments and
\* every chunk after the first begins with the overlap.
C18_AllChunksOfK ==
    ck_pc = "returned" /\ UniformCost =>
        \A n \in DOMAIN ck_chunks :
            /\ Len(ck_chunks[n]) = UniformK
            /\ n > 1 => BeginsWithOverlap(n)

\* C18 amended: with equal costs every chunk but the last has exactly k
\* segments, the last has between 1 and k, and every chunk after the first
\* begins with the overlap.
C18_AllButLastChunkOfK ==
    ck_pc = "returned" /\ UniformCost =>
        \A n \in DOMAIN ck_chunks :
            /\ n < Len(ck_chunks) => Len(ck_chunks[n]) = UniformK
            /\ Len(ck_chunks[n]) >= 1 /\ Len(ck_chunks[n]) <= UniformK
            /\ n > 1 => BeginsWithOverlap(n)

\* C18 witness: scenario A, 20 segments of 10 tokens and a budget of 100,
\* gives three chunks.
C18_Witness ==
    /\ ck_pc = "returned"
    /\ UniformCost
    /\ Len(ck_segments) = 20
    /\ ck_max_tokens = Tokens(10)
    /\ Len(ck_chunks) = 3
    /\ ck_chunks[2][1] = ck_segments[10]

(***************************************************************************)
(* Retry properties                                                        *)
(***************************************************************************)
\* A call the service refused for its rate limit.
RateLimited(outcome) == outcome.kind = "error" /\ outcome.is_429

\* C15: at most 5 calls per unit of work, and every call but the last was
\* refused for the rate limit.
C15_RetryOnlyAfterRateLimit ==
    /\ Len(rt_outcomes) <= 5
    /\ \A k \in DOMAIN rt_outcomes :
          k < Len(rt_outcomes) => RateLimited(rt_outcomes[k])

\* C16: the sleep after the rate-limit failure of attempt a (the k-th call,
\* k = a + 1 <= 4) is the suggested seconds plus 1, or else 2, 4, 8, 16; the
\* fifth failure is followed by no sleep and ends the unit.
C16_WaitBeforeRetry ==
    \A k \in DOMAIN rt_outcomes :
        RateLimited(rt_outcomes[k]) =>
            IF k <= 4
            THEN /\ k \in DOMAIN rt_waits
                 /\ rt_waits[k] = IF rt_outcomes[k].has_hint
                                  THEN rt_outcomes[k].hint + 1
                                  ELSE <<2, 4, 8, 16>>[k]
            ELSE /\ Len(rt_waits) = 4
                 /\ rt_pc \in {"returned", "raised"}

\* C16 witness: five refusals in a row, with and without a suggested wait.
C16_Witness ==
    /\ Len(rt_outcomes) = 5
    /\ \A k \in DOMAIN rt_outcomes : RateLimited(rt_outcomes[k])
    /\ rt_waits = <<2, 21, 8, 16>>
    /\ rt_pc = "raised"

(***************************************************************************)
(* Aligner properties                                                      *)
(***************************************************************************)
AlReturnedOriginal ==
    al_ret.adjusted_start = al_start_time /\ al_ret.adjusted_end = al_end_time

AlKeptFifth ==
    5 * (al_ret.adjusted_end - al_ret.adjusted_start) >= al_end_time - al_start_time

\* C19: align_clip_to_boundaries returns adjusted_end > adjusted_start.
C19_EndAfterStart ==
    al_pc = "returned" => al_ret.adjusted_end > al_ret.adjusted_start

\* C19 witness: a clip of 20 s, a cap of 3 s and a boundary at the start, so
\* that the trimmed end falls on the start; the original pair comes back.
C19_Witness ==
    /\ al_pc = "returned"
    /\ al_start_time = 10 /\ al_end_time = 30
    /\ al_max_clip_duration = SomeFloat(3)
    /\ \E k \in DOMAIN al_boundaries : al_boundaries[k].time = 10
    /\ AlReturnedOriginal

\* C20 as stated: the pair returned has at least 20% of the original
\* duration or is the original pair.
C20_FifthOrOriginal ==
    al_pc = "returned" => AlKeptFifth \/ AlReturnedOriginal

\* C20 amended: ... or, with max_clip_duration set, its end is a boundary at
\* most 5 s before adjusted_start + max_clip_duration.
C20_FifthOrOriginalOrTrimmed ==
    al_pc = "returned" =>
        \/ AlKeptFifth
        \/ AlReturnedOriginal
        \/ /\ ~al_max_clip_duration.is_none
           /\ al_ret.adjusted_end <= al_ret.adjusted_start + al_max_clip_duration.value
           /\ al_ret.adjusted_end >= al_ret.adjusted_start + al_max_clip_duration.value - 5
           /\ \E k \in DOMAIN al_boundaries :
                 al_boundaries[k].time = al_ret.adjusted_end

\* C20 witness: a clip of 60 s trimmed to 10 s.
C20_Witness ==
    /\ al_pc = "returned"
    /\ al_start_time = 10 /\ al_end_time = 70
    /\ al_max_clip_duration = SomeFloat(10)
    /\ al_ret.adjusted_start = 10 /\ al_ret.adjusted_end = 20

AlReturned == al_pc \in {"returned", "realigned"}

AlBoundaryAt(time, type) ==
    \E k \in DOMAIN al_boundaries :
        al_boundaries[k].time = time /\ al_boundaries[k].type = type

AlBoundaryTimes == {al_boundaries[k].time : k \in DOMAIN al_boundaries}

\* C21: the pair returned lasts at least 8 s or is the original pair.
C21_EightSecondsOrOriginal ==
    AlReturned =>
        \/ al_ret.adjusted_end - al_ret.adjusted_start >= 8
        \/ AlReturnedOriginal

\* C21 witness: a clip of 20 s, a cap of 3 s and boundaries at 10 and 13: the
\* trim leaves 3 s and the original pair comes back.
C21_Witness ==
    /\ al_pc = "returned"
    /\ al_start_time = 10 /\ al_end_time = 30
    /\ al_max_clip_duration = SomeFloat(3)
    /\ {10, 13} \subseteq AlBoundaryTimes
    /\ al_max_adjustment = 3
    /\ AlReturnedOriginal

\* C22: aligning the pair returned, with the same boundary list and the same
\* settings, returns that pair again.
C22_Idempotent ==
    al_pc = "realigned" =>
        /\ al_again.adjusted_start = al_ret.adjusted_start
        /\ al_again.adjusted_end = al_ret.adjusted_end

\* The edges the two searches of a call with no duration constraint should
\* give: the greatest boundary time <= start_time and the least boundary time
\* >= end_time, when within max_adjustment, and the edge itself otherwise.
AlExpectedStart ==
    LET before == {t \in AlBoundaryTimes : t <= al_start_time}
        greatest == CHOOSE t \in before : \A u \in before : u <= t
    IN IF before # {} /\ al_start_time - greatest <= al_max_adjustment
       THEN greatest ELSE al_start_time

AlExpectedEnd ==
    LET after == {t \in AlBoundaryTimes : t >= al_end_time}
        least == CHOOSE t \in after : \A u \in after : t <= u
    IN IF after # {} /\ least - al_end_time <= al_max_adjustment
       THEN least ELSE al_end_time

AlUnconstrained == al_min_clip_duration.is_none /\ al_max_clip_duration.is_none

\* C23: with no duration constraint and an input of at least 8 s, each edge
\* goes to its nearest boundary within max_adjustment, or stays.
C23_EdgesToNearestBoundary ==
    AlReturned /\ AlUnconstrained /\ al_end_time - al_start_time >= 8 =>
        /\ al_ret.adjusted_start = AlExpectedStart
        /\ al_ret.adjusted_end = AlExpectedEnd

\* C23 witness: scenario C in the times of the model: a boundary 5 s before
\* the start and the next one 42 s after the end, max_adjustment 10; the
\* start moves, the end stays.
C23_Witness ==
    /\ al_pc = "returned"
    /\ AlUnconstrained
    /\ al_start_time = 10 /\ al_end_time = 30
    /\ al_max_adjustment = 10
    /\ AlBoundaryTimes = {5, 72}
    /\ al_ret.adjusted_start = 5 /\ al_ret.adjusted_end = 30

AlStartWithinAdjustment ==
    Abs(al_ret.adjusted_start - al_start_time) <= al_max_adjustment

AlEndWithinAdjustment ==
    Abs(al_ret.adjusted_end - al_end_time) <= al_max_adjustment

AlReverted ==
    /\ AlReturnedOriginal
    /\ \/ find_nearest_boundary_before(al_start_time, al_boundaries,
                                       SomeFloat(al_max_adjustment)).found
             /\ find_nearest_boundary_before(al_start_time, al_boundaries,
                                       SomeFloat(al_max_adjustment)).time # al_start_time
       \/ find_nearest_boundary_after(al_end_time, al_boundaries,
                                      SomeFloat(al_max_adjustment)).found
             /\ find_nearest_boundary_after(al_end_time, al_boundaries,
                                      SomeFloat(al_max_adjustment)).time # al_end_time

\* C25: an edge reported as aligned is on a boundary of the reported type,
\* and after a revert to the original pair no edge is reported as aligned.
C25_ProvenanceDescribesResult ==
    AlReturned =>
        /\ al_ret.start_aligned =>
              AlBoundaryAt(al_ret.adjusted_start, al_ret.start_boundary_type)
        /\ al_ret.end_aligned =>
              AlBoundaryAt(al_ret.adjusted_end, al_ret.end_boundary_type)
        /\ AlReverted => ~al_ret.start_aligned /\ ~al_ret.end_aligned

(***************************************************************************)
(* Sentence boundary properties                                            *)
(***************************************************************************)
BdEmittedAt(time) ==
    {bd_emitted[k] : k \in {j \in DOMAIN bd_emitted : bd_emitted[j].time = time}}

\* C26: the boundaries returned have strictly increasing times, every
\* timestamp that was emitted is there once, and the boundary kept for it is
\* one that was emitted with the highest confidence at that timestamp.
C26_SortedUniqueHighestConfidence ==
    bd_pc = "returned" =>
        /\ \A i, j \in DOMAIN bd_boundaries :
              i < j => bd_boundaries[i].time < bd_boundaries[j].time
        /\ \A k \in DOMAIN bd_emitted :
              \E i \in DOMAIN bd_boundaries :
                  bd_boundaries[i].time = bd_emitted[k].time
        /\ \A i \in DOMAIN bd_boundaries :
              /\ bd_boundaries[i] \in BdEmittedAt(bd_boundaries[i].time)
              /\ \A e \in BdEmittedAt(bd_boundaries[i].time) :
                    e.confidence <= bd_boundaries[i].confidence

\* C26 witness: a pause, then a topic transition, then a sentence end, all
\* at one timestamp, and another boundary later that ends up behind it.
C26_Witness ==
    /\ bd_pc = "returned"
    /\ \E a, b, c \in DOMAIN bd_emitted :
          /\ a < b /\ b < c
          /\ bd_emitted[a].time = bd_emitted[b].time
          /\ bd_emitted[b].time = bd_emitted[c].time
          /\ bd_emitted[a].type = "pause"
          /\ bd_emitted[b].type = "topic_transition"
          /\ bd_emitted[c].type = "sentence_end"
    /\ Len(bd_boundaries) >= 2

(***************************************************************************)
(* Overlap filter properties                                               *)
(***************************************************************************)
\* overlap_duration / min(duration_a, duration_b) > overlap_threshold
FoRatioAboveThreshold(a, b) ==
    LET overlap_duration == Min(a.end_time, b.end_time)
                                - Max(a.start_time, b.start_time)
        shorter == Min(a.end_time - a.start_time, b.end_time - b.start_time)
    IN overlap_duration > 0 /\ shorter > 0
        /\ 100 * overlap_duration > fo_threshold * shorter

FoKept(i) == \E k \in DOMAIN fo_filtered : fo_filtered[k] = fo_segments[i]

\* C27: what filter_overlapping returns is a subsequence of the argument
\* that holds its first segment; a segment is kept exactly when it overlaps
\* no segment kept before it by more than overlap_threshold; so no two kept
\* segments overlap by more than that.
C27_KeptIffNoOverlapWithKept ==
    fo_pc = "returned" =>
        /\ \A k \in DOMAIN fo_filtered :
              /\ fo_filtered[k].id \in DOMAIN fo_segments
              /\ fo_filtered[k] = fo_segments[fo_filtered[k].id]
        /\ \A k, l \in DOMAIN fo_filtered :
              k < l => fo_filtered[k].id < fo_filtered[l].id
        /\ fo_segments # <<>> => fo_filtered # <<>> /\ fo_filtered[1] = fo_segments[1]
        /\ \A i \in DOMAIN fo_segments :
              FoKept(i) <=>
                 \A j \in 1..(i - 1) :
                     FoKept(j) => ~FoRatioAboveThreshold(fo_segments[i], fo_segments[j])
        /\ \A k, l \in DOMAIN fo_filtered :
              k # l => ~FoRatioAboveThreshold(fo_filtered[k], fo_filtered[l])

\* C27 witness: the second segment is dropped for its overlap with the
\* first, and the third, which overlaps the second by more than the
\* threshold and the first by exactly the threshold, is kept.
C27_Witness ==
    /\ fo_pc = "returned"
    /\ fo_threshold = 30
    /\ Len(fo_segments) >= 3
    /\ FoKept(1) /\ ~FoKept(2) /\ FoKept(3)
    /\ FoRatioAboveThreshold(fo_segments[3], fo_segments[2])
    /\ fo_segments[1].start_time = 0 /\ fo_segments[1].end_time = 10
    /\ fo_segments[3].start_time = 7 /\ fo_segments[3].end_time = 17

(***************************************************************************)
(* Pipeline properties                                                     *)
(***************************************************************************)
Layer2Untouched == l2_pc = "idle"

Layer3Untouched ==
    l3_thoughts = <<>> /\ l3_idx = 1 /\ judgments = <<>> /\ validated_clips = <<>>

Layer4Untouched == l4_idx = 0 /\ packaged_clips = <<>>

NothingReturnedYet(stage) ==
    /\ ad_pc \in {stage, "returned"}
    /\ legacy_clips = <<>>

NoPass == \A k \in DOMAIN validated_clips : validated_clips[k].verdict # "PASS"

\* C14: once a stage has come back empty, analyze_transcript does not raise,
\* no later stage is started, and what it returns is the empty list.
C14_EmptyStageEndsRun ==
    /\ l1_segments = <<>> =>
          l1_requests = 0 /\ NothingReturnedYet("layer1")
    /\ l1_pc = "returned" /\ l1_moments = <<>> =>
          /\ NothingReturnedYet("layer1")
          /\ Layer2Untouched /\ Layer3Untouched /\ Layer4Untouched
    /\ l2_pc = "returned" /\ l2_thoughts = <<>> =>
          /\ NothingReturnedYet("layer2")
          /\ Layer3Untouched /\ Layer4Untouched
    /\ l3_thoughts # <<>> /\ l3_pc = "done" /\ NoPass =>
          /\ NothingReturnedYet("layer3")
          /\ Layer4Untouched
    /\ ad_pc = "returned" /\ packaged_clips = <<>> => legacy_clips = <<>>

\* C14 witness: Layer 3 judged two thoughts, none of them PASS, and
\* analyze_transcript has returned.
C14_Witness ==
    /\ ad_pc = "returned"
    /\ Len(validated_clips) = 2
    /\ NoPass
    /\ l1_requests > 0

====
